---- MODULE Spec2Model ----
(***************************************************************************)
(* rf-console backend (src/backend/src/server.js): the talkgroup / site    *)
(* normalizers, the filter policy engine, the tags / trunk writers, the    *)
(* trunk validator, the start-up migration of the active-profile pointer   *)
(* and the request handlers over the profile and runtime directories.      *)
(*                                                                         *)
(* A JavaScript string is a sequence of one-character strings, so that     *)
(* trimming, slicing, splitting and quoting are computed character by      *)
(* character as the code computes them.  The time stamps of the documents *)
(* (updatedAt, generatedAt, requestedAt) are left out; lastReq.writes      *)
(* lists, in order, the files a request wrote (a profile switch ends its   *)
(* list with the decoder restart it asked for).                            *)
(***************************************************************************)
EXTENDS Integers, Sequences, FiniteSets, TLC

VARIABLES
    profileDocs,   \* <profile>.profile.json    in PROFILES_DIR (None = absent)
    tgDocs,        \* <profile>.talkgroups.json in PROFILES_DIR
    tagsFiles,     \* <profile>.tags.tsv        in PROFILES_DIR (lines before join)
    trunkFiles,    \* <profile>.trunk.tsv       in PROFILES_DIR (lines before join)
    filterDocs,    \* <profile>.filter.json     in RUNTIME_DIR
    reloadFile,    \* reload-request.json       in RUNTIME_DIR
    activeFile,    \* active-profile.json       in RUNTIME_DIR
    legacyActiveFile, \* active_profile.json    in RUNTIME_DIR (the legacy pointer)
    dirFiles,      \* every other file of PROFILES_DIR, by file name (absent = not
                   \* in the domain); an absolute name stands for that path
    env,           \* process.env as read at start-up: ADMIN_TOKEN, CONTROL_PRIVATE_ONLY
    awaiting,      \* the requests suspended at an await, in order of arrival
    lastReq,       \* the request handled last: operation, response, files written
    probe          \* input and result of the function call made by the last
                   \* step (normalizer, policy, writer, validator, migration)

vars == <<profileDocs, tgDocs, tagsFiles, trunkFiles, filterDocs, reloadFile,
          activeFile, legacyActiveFile, dirFiles, env, awaiting, lastReq, probe>>

None == [absent |-> TRUE]

----------------------------------------------------------------------------
(* Strings                                                                 *)

Range(s) == {s[i] : i \in DOMAIN s}

IsWs(c) == c \in {" ", "\t", "\n", "\r"}

RECURSIVE TrimStart(_)
TrimStart(s) == IF s # <<>> /\ IsWs(Head(s)) THEN TrimStart(Tail(s)) ELSE s

RECURSIVE TrimEnd(_)
TrimEnd(s) ==
    IF s # <<>> /\ IsWs(s[Len(s)]) THEN TrimEnd(SubSeq(s, 1, Len(s) - 1)) ELSE s

\* String.prototype.trim
Trim(s) == TrimEnd(TrimStart(s))

\* String.prototype.slice(0, max)
Slice(s, max) == SubSeq(s, 1, IF Len(s) < max THEN Len(s) ELSE max)

UpperChars ==
    <<"A", "B", "C", "D", "E", "F", "G", "H", "I", "J", "K", "L", "M",
      "N", "O", "P", "Q", "R", "S", "T", "U", "V", "W", "X", "Y", "Z">>

LowerChars ==
    <<"a", "b", "c", "d", "e", "f", "g", "h", "i", "j", "k", "l", "m",
      "n", "o", "p", "q", "r", "s", "t", "u", "v", "w", "x", "y", "z">>

toUpperCase(s) ==
    [i \in DOMAIN s |->
        IF \E k \in DOMAIN LowerChars : LowerChars[k] = s[i]
        THEN UpperChars[CHOOSE k \in DOMAIN LowerChars : LowerChars[k] = s[i]]
        ELSE s[i]]

toLowerCase(s) ==
    [i \in DOMAIN s |->
        IF \E k \in DOMAIN UpperChars : UpperChars[k] = s[i]
        THEN LowerChars[CHOOSE k \in DOMAIN UpperChars : UpperChars[k] = s[i]]
        ELSE s[i]]

startsWith(s, pre) == Len(s) >= Len(pre) /\ SubSeq(s, 1, Len(pre)) = pre

endsWith(s, suf) ==
    Len(s) >= Len(suf) /\ SubSeq(s, Len(s) - Len(suf) + 1, Len(s)) = suf

includes(s, sub) ==
    \E i \in 1..(Len(s) - Len(sub) + 1) : SubSeq(s, i, i + Len(sub) - 1) = sub

\* Array.prototype.join
RECURSIVE join(_, _)
join(parts, sep) ==
    IF parts = <<>> THEN <<>>
    ELSE IF Len(parts) = 1 THEN parts[1]
    ELSE parts[1] \o sep \o join(Tail(parts), sep)

\* The k-th smallest element of a finite set of integers
Kth(S, k) == CHOOSE i \in S : Cardinality({j \in S : j <= i}) = k

\* String.prototype.split on single separator characters: the pieces
\* between consecutive separator positions
SplitAt(s, at) ==
    [k \in 1..(Cardinality(at) + 1) |->
        SubSeq(s, IF k = 1 THEN 1 ELSE Kth(at, k - 1) + 1,
                  IF k = Cardinality(at) + 1 THEN Len(s) ELSE Kth(at, k) - 1)]

SplitOn(s, seps) == SplitAt(s, {i \in DOMAIN s : s[i] \in seps})

split(s, sep) == SplitOn(s, {sep})

\* String.prototype.replace(/c/g, '') for one character c
RemoveChar(s, c) ==
    LET keep == {i \in DOMAIN s : s[i] # c}
    IN  IF keep = DOMAIN s THEN s
        ELSE [k \in 1..Cardinality(keep) |-> s[Kth(keep, k)]]

----------------------------------------------------------------------------
(* Numbers: a finite decimal neg * mant / 10^scale, or NaN.  Equal numbers  *)
(* have equal records (the fraction carries no trailing zero).             *)

DigitChars == <<"0", "1", "2", "3", "4", "5", "6", "7", "8", "9">>

IsDigit(c) == \E d \in DOMAIN DigitChars : DigitChars[d] = c

DigitVal(c) == (CHOOSE d \in DOMAIN DigitChars : DigitChars[d] = c) - 1

NaN == [nan |-> TRUE, neg |-> FALSE, mant |-> 0, scale |-> 0]

RECURSIVE Reduce(_)
Reduce(x) ==
    IF x.scale > 0 /\ x.mant % 10 = 0
    THEN Reduce([x EXCEPT !.mant = x.mant \div 10, !.scale = x.scale - 1])
    ELSE x

Int2Num(n) ==
    [nan |-> FALSE, neg |-> n < 0, mant |-> IF n < 0 THEN -n ELSE n, scale |-> 0]

RECURSIVE DigitsVal(_)
DigitsVal(ds) ==
    IF ds = <<>> THEN 0 ELSE 10 * DigitsVal(SubSeq(ds, 1, Len(ds) - 1)) + DigitVal(ds[Len(ds)])

AllDigits(s) == \A i \in DOMAIN s : IsDigit(s[i])

\* StringToNumber of ECMAScript for the decimal literals [+-]digits[.digits];
\* the empty (all-whitespace) string is 0.  Exponent, hex and Infinity forms
\* do not occur in the inputs drawn here and are read as NaN.
StringToNumber(s) ==
    LET t     == Trim(s)
        neg   == t # <<>> /\ Head(t) = "-"
        body  == IF t # <<>> /\ Head(t) \in {"-", "+"} THEN Tail(t) ELSE t
        parts == split(body, ".")
        ip    == parts[1]
        fp    == IF Len(parts) = 2 THEN parts[2] ELSE <<>>
    IN  IF t = <<>> THEN Int2Num(0)
        ELSE IF Len(parts) > 2 \/ ~AllDigits(ip) \/ ~AllDigits(fp) \/ (ip = <<>> /\ fp = <<>>)
        THEN NaN
        ELSE Reduce([nan |-> FALSE,
                     neg |-> neg /\ DigitsVal(ip \o fp) # 0,
                     mant |-> DigitsVal(ip \o fp),
                     scale |-> Len(fp)])

\* Number.isInteger
isInteger(x) == ~x.nan /\ x.scale = 0

IntOf(x) == IF x.neg THEN -x.mant ELSE x.mant

RECURSIVE NatToStr(_)
NatToStr(n) ==
    IF n < 10 THEN <<DigitChars[n + 1]>>
    ELSE NatToStr(n \div 10) \o <<DigitChars[(n % 10) + 1]>>

\* Number::toString for integers
IntToStr(n) == IF n < 0 THEN <<"-">> \o NatToStr(-n) ELSE NatToStr(n)

----------------------------------------------------------------------------
(* JavaScript values of request bodies and parsed JSON                     *)

Undef   == [t |-> "undefined", b |-> FALSE, num |-> NaN, s |-> <<>>]
Null    == [t |-> "null", b |-> FALSE, num |-> NaN, s |-> <<>>]
Bool(b) == [t |-> "boolean", b |-> b, num |-> NaN, s |-> <<>>]
Num(n)  == [t |-> "number", b |-> FALSE, num |-> Int2Num(n), s |-> <<>>]
Str(s)  == [t |-> "string", b |-> FALSE, num |-> NaN, s |-> s]
\* an array of strings (s holds the elements)
Arr(xs) == [t |-> "array", b |-> FALSE, num |-> NaN, s |-> xs]

\* ToBoolean
Truthy(v) ==
    CASE v.t = "boolean" -> v.b
      [] v.t = "number"  -> ~v.num.nan /\ v.num.mant # 0
      [] v.t = "string"  -> v.s # <<>>
      [] v.t = "array"   -> TRUE
      [] OTHER           -> FALSE

\* a || b
OrElse(a, b) == IF Truthy(a) THEN a ELSE b

\* String(v)
String(v) ==
    CASE v.t = "undefined" -> <<"u", "n", "d", "e", "f", "i", "n", "e", "d">>
      [] v.t = "null"      -> <<"n", "u", "l", "l">>
      [] v.t = "boolean"   ->
            IF v.b THEN <<"t", "r", "u", "e">> ELSE <<"f", "a", "l", "s", "e">>
      [] v.t = "number"    -> IntToStr(IntOf(v.num))
      [] OTHER             -> v.s

\* Number(v)
Number(v) ==
    CASE v.t = "undefined" -> NaN
      [] v.t = "null"      -> Int2Num(0)
      [] v.t = "boolean"   -> Int2Num(IF v.b THEN 1 ELSE 0)
      [] v.t = "number"    -> v.num
      [] OTHER             -> StringToNumber(v.s)

\* v ?? ''
NullishToEmpty(v) == IF v.t \in {"undefined", "null"} THEN Str(<<>>) ELSE v

----------------------------------------------------------------------------
(* Field helpers                                                           *)

clampText(value, max) ==
    IF value.t # "string" THEN <<>> ELSE Slice(Trim(value.s), max)

parseBool(value) ==
    toLowerCase(Trim(String(NullishToEmpty(value)))) \in
        { <<"1">>, <<"t", "r", "u", "e">>, <<"y", "e", "s">>, <<"y">>, <<"o", "n">> }

parseMode(value) ==
    LET m == toUpperCase(Trim(String(NullishToEmpty(value))))
    IN  IF m \in { <<"D">>, <<"T">>, <<"D", "E">>, <<"T", "E">> } THEN m ELSE <<"D">>

----------------------------------------------------------------------------
(* CSV / TSV tokenizer                                                     *)

\* One iteration of the for loop of parseCsvLine at index i (1-based); skip
\* is set when the iteration before consumed this character too (i += 1 on
\* a doubled quote).
CsvStep(st, line, delimiter, i) ==
    IF st.skip THEN [st EXCEPT !.skip = FALSE]
    ELSE IF line[i] = "\"" THEN
        IF st.inQuotes /\ i + 1 <= Len(line) /\ line[i + 1] = "\""
        THEN [st EXCEPT !.cur = Append(@, "\""), !.skip = TRUE]
        ELSE [st EXCEPT !.inQuotes = ~@]
    ELSE IF line[i] = delimiter /\ ~st.inQuotes
        THEN [st EXCEPT !.out = Append(@, st.cur), !.cur = <<>>]
    ELSE [st EXCEPT !.cur = Append(@, line[i])]

\* The loop over the indices lo..hi, in order (halved to keep the evaluation
\* shallow)
RECURSIVE ScanCsvLine(_, _, _, _, _)
ScanCsvLine(st, line, delimiter, lo, hi) ==
    IF lo > hi THEN st
    ELSE IF lo = hi THEN CsvStep(st, line, delimiter, lo)
    ELSE LET mid  == (lo + hi) \div 2
             left == ScanCsvLine(st, line, delimiter, lo, mid)
         IN  IF left.skip \in BOOLEAN
             THEN ScanCsvLine(left, line, delimiter, mid + 1, hi)
             ELSE left

parseCsvLine(line, delimiter) ==
    LET st  == ScanCsvLine([out |-> <<>>, cur |-> <<>>, inQuotes |-> FALSE, skip |-> FALSE],
                           line, delimiter, 1, Len(line))
        out == Append(st.out, st.cur)
    IN  [k \in DOMAIN out |-> Trim(out[k])]

RECURSIVE KeepLines(_)
KeepLines(ls) ==
    IF ls = <<>> THEN <<>>
    ELSE IF Head(ls) # <<>> /\ Head(Head(ls)) # "#"
         THEN <<Head(ls)>> \o KeepLines(Tail(ls))
         ELSE KeepLines(Tail(ls))

CsvLines(text) ==
    LET raw == split(RemoveChar(String(OrElse(text, Str(<<>>))), "\r"), "\n")
    IN  KeepLines([k \in DOMAIN raw |-> Trim(raw[k])])

\* The second test looks for the two characters backslash, t (the source
\* writes '\\t'), and yields that two-character string as the delimiter,
\* which no single character of a line equals.
CsvDelimiter(header) ==
    IF includes(header, <<",">>) THEN ","
    ELSE IF includes(header, <<"\\", "t">>) THEN "\\t"
    ELSE ","

\* row[h] = cols[i] || '' for each header in order: the last column of a
\* repeated header name wins.
CsvRow(headers, cols) ==
    [h \in Range(headers) |->
        LET i == CHOOSE j \in DOMAIN headers :
                    headers[j] = h /\ \A k \in DOMAIN headers : headers[k] = h => k <= j
        IN  IF i <= Len(cols) THEN cols[i] ELSE <<>>]

parseCsv(text) ==
    LET lines == CsvLines(text)
    IN  IF lines = <<>> THEN [headers |-> <<>>, rows |-> <<>>]
        ELSE LET delimiter == CsvDelimiter(lines[1])
                 headers   == parseCsvLine(lines[1], delimiter)
             IN  [headers |-> headers,
                  rows    |-> [k \in 1..(Len(lines) - 1) |->
                                  CsvRow(headers, parseCsvLine(lines[k + 1], delimiter))]]

\* row.<key> : the cell, or undefined when the header row has no such column
Cell(row, key) == IF key \in DOMAIN row THEN Str(row[key]) ELSE Undef

----------------------------------------------------------------------------
(* Record Normalizer: talkgroups                                           *)

K_tgid      == <<"t", "g", "i", "d">>
K_label     == <<"l", "a", "b", "e", "l">>
K_mode      == <<"m", "o", "d", "e">>
K_encrypted == <<"e", "n", "c", "r", "y", "p", "t", "e", "d">>
K_category  == <<"c", "a", "t", "e", "g", "o", "r", "y">>
K_favorite  == <<"f", "a", "v", "o", "r", "i", "t", "e">>
K_enabled   == <<"e", "n", "a", "b", "l", "e", "d">>

Uncategorized == <<"u", "n", "c", "a", "t", "e", "g", "o", "r", "i", "z", "e", "d">>

\* Number.isInteger(tgid) && tgid >= 0 && tgid <= 65535
TgidOk(n) == isInteger(n) /\ IntOf(n) >= 0 /\ IntOf(n) <= 65535

RowError(rowNo, msg, val) == [row |-> rowNo, msg |-> msg, val |-> val]

HeaderErrors(headers, required) ==
    LET miss(k) == IF required[k] \in Range(headers) THEN <<>>
                   ELSE <<RowError(0, "Missing required CSV header", required[k])>>
    IN  miss(1) \o miss(2)

MapSetFirstWins(m, e) ==
    IF \E i \in DOMAIN m : m[i].tgid = e.tgid THEN m ELSE Append(m, e)

\* Map.prototype.set on a Map kept as the sequence of its values in
\* insertion order: an existing key keeps its position.
MapSet(m, e) ==
    IF \E i \in DOMAIN m : m[i].tgid = e.tgid
    THEN [i \in DOMAIN m |-> IF m[i].tgid = e.tgid THEN e ELSE m[i]]
    ELSE Append(m, e)

\* Array.prototype.sort((a, b) => a.tgid - b.tgid), which is stable
RECURSIVE SortByTgid(_)
SortByTgid(s) ==
    IF s = <<>> THEN <<>>
    ELSE LET rest == SortByTgid(SubSeq(s, 1, Len(s) - 1))
             x    == s[Len(s)]
             n    == Cardinality({i \in DOMAIN rest : rest[i].tgid <= x.tgid})
         IN  SubSeq(rest, 1, n) \o <<x>> \o SubSeq(rest, n + 1, Len(rest))

FilterActionAlwaysAllow(encrypted) == "allow"

\* encrypted ? 'deny' : 'allow'
FilterActionOf(encrypted) == IF encrypted THEN "deny" ELSE "allow"

\* body of parsed.rows.forEach in normalizeTalkgroupsCsv: the accumulator
\* holds the errors and the dedupe Map
TalkgroupsCsvRow(acc, row, idx) ==
    LET rowNo     == idx + 2
        tgid      == Number(Cell(row, K_tgid))
        label     == clampText(Cell(row, K_label), 128)
        mode      == parseMode(Cell(row, K_mode))
        encrypted == IF Cell(row, K_encrypted) = Str(<<>>)
                     THEN endsWith(mode, <<"E">>)
                     ELSE parseBool(Cell(row, K_encrypted))
        cat       == clampText(Cell(row, K_category), 64)
        category  == IF cat # <<>> THEN cat ELSE Uncategorized
        favorite  == parseBool(Cell(row, K_favorite))
        enabled   == IF Cell(row, K_enabled) = Str(<<>>)
                     THEN TRUE
                     ELSE parseBool(Cell(row, K_enabled))
    IN  IF ~TgidOk(tgid)
        THEN [acc EXCEPT !.errors =
                 Append(@, RowError(rowNo, "invalid tgid", String(Cell(row, K_tgid))))]
        ELSE IF label = <<>>
        THEN [acc EXCEPT !.errors = Append(@, RowError(rowNo, "label is required", <<>>))]
        ELSE [acc EXCEPT !.dedupe = MapSet(@,
                 [tgid |-> IntOf(tgid), label |-> label, mode |-> mode,
                  encrypted |-> encrypted, category |-> category,
                  favorite |-> favorite, filterAction |-> FilterActionOf(encrypted),
                  enabled |-> enabled])]

RECURSIVE TalkgroupsCsvRows(_, _, _)
TalkgroupsCsvRows(acc, rows, idx) ==
    IF idx >= Len(rows) THEN acc
    ELSE TalkgroupsCsvRows(TalkgroupsCsvRow(acc, rows[idx + 1], idx), rows, idx + 1)

normalizeTalkgroupsCsv(csvText) ==
    LET parsed  == parseCsv(csvText)
        hdrErrs == HeaderErrors(parsed.headers, <<K_tgid, K_label>>)
    IN  IF hdrErrs # <<>> THEN [errors |-> hdrErrs, entries |-> <<>>]
        ELSE LET acc == TalkgroupsCsvRows([errors |-> <<>>, dedupe |-> <<>>], parsed.rows, 0)
             IN  [errors |-> acc.errors, entries |-> SortByTgid(acc.dedupe)]

\* A structured entry: every property is a JavaScript value (Undef = not set)
MissingEntry ==
    [tgid |-> Undef, label |-> Undef, mode |-> Undef, encrypted |-> Undef,
     category |-> Undef, favorite |-> Undef, enabled |-> Undef]

\* body of the for loop in normalizeTalkgroupsEntries
TalkgroupsEntry(acc, e, i) ==
    LET tgid      == Number(e.tgid)
        mode      == parseMode(e.mode)
        encrypted == IF e.encrypted.t = "boolean" THEN e.encrypted.b
                     ELSE endsWith(mode, <<"E">>)
        cat       == clampText(OrElse(e.category, Str(Uncategorized)), 64)
    IN  IF ~TgidOk(tgid)
        THEN [acc EXCEPT !.errors =
                 Append(@, RowError(i + 1, "invalid tgid", String(e.tgid)))]
        ELSE [acc EXCEPT !.out = Append(@,
                 [tgid |-> IntOf(tgid),
                  label |-> clampText(
                      OrElse(e.label, Str(<<"T", "G", " ">> \o IntToStr(IntOf(tgid)))), 128),
                  mode |-> mode,
                  encrypted |-> encrypted,
                  category |-> IF cat # <<>> THEN cat ELSE Uncategorized,
                  favorite |-> Truthy(e.favorite),
                  filterAction |-> FilterActionOf(encrypted),
                  enabled |-> ~(e.enabled.t = "boolean" /\ ~e.enabled.b)])]

RECURSIVE TalkgroupsEntries(_, _, _)
TalkgroupsEntries(acc, entries, i) ==
    IF i >= Len(entries) THEN acc
    ELSE TalkgroupsEntries(TalkgroupsEntry(acc, entries[i + 1], i), entries, i + 1)

normalizeTalkgroupsEntries(entries) ==
    LET acc == TalkgroupsEntries([errors |-> <<>>, out |-> <<>>], entries, 0)
    IN  [errors |-> acc.errors, entries |-> SortByTgid(acc.out)]

----------------------------------------------------------------------------
(* Filter Policy Engine                                                    *)

RECURSIVE FilterTgids(_, _)
FilterTgids(entries, action) ==
    IF entries = <<>> THEN <<>>
    ELSE (IF Head(entries).enabled /\ Head(entries).filterAction = action
          THEN <<Head(entries).tgid>> ELSE <<>>) \o FilterTgids(Tail(entries), action)

buildFilterPolicyByDeny(entries) ==
    LET allow  == FilterTgids(entries, "allow")
        deny   == FilterTgids(entries, "deny")
        policy == IF Len(deny) > 0 THEN "blacklist" ELSE "whitelist"
    IN  [policy |-> policy, allow |-> allow, deny |-> deny,
         effective |-> IF policy = "whitelist" THEN allow ELSE deny]

buildFilterPolicy(entries) ==
    LET allow  == FilterTgids(entries, "allow")
        deny   == FilterTgids(entries, "deny")
        policy == IF Len(allow) > 0 THEN "whitelist" ELSE "blacklist"
    IN  [policy |-> policy, allow |-> allow, deny |-> deny,
         effective |-> IF policy = "whitelist" THEN allow ELSE deny]

----------------------------------------------------------------------------
(* Record Normalizer: sites                                                *)

K_site_name    == <<"s", "i", "t", "e", "_", "n", "a", "m", "e">>
K_control_freq == <<"c", "o", "n", "t", "r", "o", "l", "_", "f", "r", "e", "q">>
K_alt_freqs    == <<"a", "l", "t", "_", "f", "r", "e", "q", "s">>
K_nac          == <<"n", "a", "c">>
K_sysid        == <<"s", "y", "s", "i", "d">>
K_wacn         == <<"w", "a", "c", "n">>
K_bandplan     == <<"b", "a", "n", "d", "p", "l", "a", "n">>

RECURSIVE Pow10(_)
Pow10(k) == IF k = 0 THEN 1 ELSE 10 * Pow10(k - 1)

RECURSIVE StripTrailing(_, _)
StripTrailing(s, c) ==
    IF s # <<>> /\ s[Len(s)] = c THEN StripTrailing(SubSeq(s, 1, Len(s) - 1), c) ELSE s

PadLeft(s, n) == [i \in 1..(n - Len(s)) |-> "0"] \o s

\* Number.prototype.toFixed(5) of a positive finite decimal: the value in
\* units of 10^-5, rounded to nearest (a decimal lying exactly half way is
\* rounded up here; no input drawn lies half way)
toFixed5(x) ==
    LET units == IF x.scale <= 5 THEN x.mant * Pow10(5 - x.scale)
                 ELSE LET d == Pow10(x.scale - 5)
                      IN  (x.mant \div d) + (IF 2 * (x.mant % d) >= d THEN 1 ELSE 0)
    IN  NatToStr(units \div 100000) \o <<".">> \o PadLeft(NatToStr(units % 100000), 5)

\* the frequency string, or <<>> for null
normalizeFreqToken(token) ==
    LET v == Trim(String(OrElse(token, Str(<<>>))))
        n == StringToNumber(v)
    IN  IF v = <<>> THEN <<>>
        ELSE IF n.nan \/ n.neg \/ n.mant = 0 THEN <<>>
        ELSE StripTrailing(StripTrailing(toFixed5(n), "0"), ".")

\* split(/[;|\s]+/), map, filter(Boolean): the empty pieces between adjacent
\* separators normalize to null and are filtered with the other nulls
NormalizeFreqTokens(toks) == [k \in DOMAIN toks |-> normalizeFreqToken(Str(toks[k]))]

FilterBoolean(out) == LET NotNull(x) == x # <<>> IN SelectSeq(out, NotNull)

parseFreqList(value) ==
    FilterBoolean(NormalizeFreqTokens(
        SplitOn(String(OrElse(value, Str(<<>>))), {";", "|", " ", "\t", "\n", "\r"})))

\* clampText(x, max) || null
OrNull(text) == IF text # <<>> THEN Str(text) ELSE Null

ClampOrNull(value, max) == OrNull(clampText(value, max))

\* body of parsed.rows.forEach in normalizeSitesCsv
SitesCsvRowOf(acc, row, rowNo, name, controlChannels) ==
    IF name = <<>>
    THEN [acc EXCEPT !.errors = Append(@, RowError(rowNo, "site_name is required", <<>>))]
    ELSE IF controlChannels = <<>>
    THEN [acc EXCEPT !.errors =
             Append(@, RowError(rowNo, "control_freq is required and must be numeric", <<>>))]
    ELSE [acc EXCEPT !.sites = Append(@,
             [name |-> Str(name),
              nac |-> ClampOrNull(Cell(row, K_nac), 16),
              sysid |-> ClampOrNull(Cell(row, K_sysid), 16),
              wacn |-> ClampOrNull(Cell(row, K_wacn), 16),
              controlChannels |-> Arr(controlChannels),
              alternateChannels |-> Arr(parseFreqList(Cell(row, K_alt_freqs))),
              bandplan |-> ClampOrNull(Cell(row, K_bandplan), 64)])]

SitesCsvRow(acc, row, idx) ==
    SitesCsvRowOf(acc, row, idx + 2, clampText(Cell(row, K_site_name), 128),
                  parseFreqList(Cell(row, K_control_freq)))

RECURSIVE SitesCsvRows(_, _, _)
SitesCsvRows(acc, rows, idx) ==
    IF idx >= Len(rows) THEN acc
    ELSE SitesCsvRows(SitesCsvRow(acc, rows[idx + 1], idx), rows, idx + 1)

normalizeSitesCsv(csvText) ==
    LET parsed  == parseCsv(csvText)
        hdrErrs == HeaderErrors(parsed.headers, <<K_site_name, K_control_freq>>)
    IN  IF hdrErrs # <<>> THEN [errors |-> hdrErrs, sites |-> <<>>]
        ELSE LET acc == SitesCsvRows([errors |-> <<>>, sites |-> <<>>], parsed.rows, 0)
             IN  [errors |-> acc.errors, sites |-> acc.sites]

----------------------------------------------------------------------------
(* Trunk / Tags File Writer.  A file is kept as the array `out` of its     *)
(* lines; the text written is out.join('\n') + '\n'.                       *)

\* replace(/"/g, '""')
RECURSIVE DoubleQuotes(_)
DoubleQuotes(s) ==
    IF s = <<>> THEN <<>>
    ELSE (IF Head(s) = "\"" THEN <<"\"", "\"">> ELSE <<Head(s)>>) \o DoubleQuotes(Tail(s))

quoteTsv(value) == <<"\"">> \o DoubleQuotes(String(NullishToEmpty(value))) \o <<"\"">>

TagsHeader == join(<<quoteTsv(Str(<<"t", "g", "i", "d">>)), quoteTsv(Str(<<"t", "a", "g">>)), quoteTsv(Str(<<"m", "o", "d", "e">>))>>, <<"\t">>)

\* the lines writeTagsTsv writes for the entries
TagsLines(entries) ==
    <<TagsHeader>> \o
    [k \in DOMAIN entries |->
        join(<<quoteTsv(Num(entries[k].tgid)),
               quoteTsv(Str(entries[k].label)),
               quoteTsv(Str(IF entries[k].mode # <<>> THEN entries[k].mode ELSE <<"D">>))>>,
             <<"\t">>)]

TrunkHeader ==
    join(<<quoteTsv(Str(<<"s", "y", "s", "n", "a", "m", "e">>)), quoteTsv(Str(<<"s", "i", "t", "e", "_", "n", "a", "m", "e">>)),
           quoteTsv(Str(<<"c", "o", "n", "t", "r", "o", "l", "_", "c", "h", "a", "n", "n", "e", "l", "_", "l", "i", "s", "t">>)), quoteTsv(Str(<<"a", "l", "t", "_", "c", "h", "a", "n", "n", "e", "l", "_", "l", "i", "s", "t">>)),
           quoteTsv(Str(<<"n", "a", "c">>)), quoteTsv(Str(<<"s", "y", "s", "i", "d">>)), quoteTsv(Str(<<"w", "a", "c", "n">>)),
           quoteTsv(Str(<<"b", "a", "n", "d", "p", "l", "a", "n">>)), quoteTsv(Str(<<"t", "a", "g", "s", "_", "f", "i", "l", "e">>))>>, <<"\t">>)

\* (site.controlChannels || []).join(',')
JoinChannels(v) == IF Truthy(v) THEN join(v.s, <<",">>) ELSE <<>>

TagsFileName(profile) == profile \o <<".", "t", "a", "g", "s", ".", "t", "s", "v">>

\* the lines writeTrunkTsv writes; system is profileDoc.system (its fields
\* Undef when profileDoc has no system)
TrunkLines(profile, sites, system) ==
    <<TrunkHeader>> \o
    [k \in DOMAIN sites |->
        join(<<quoteTsv(OrElse(system.name, Str(profile))),
               quoteTsv(OrElse(sites[k].name, Str(<<>>))),
               quoteTsv(Str(JoinChannels(sites[k].controlChannels))),
               quoteTsv(Str(JoinChannels(sites[k].alternateChannels))),
               quoteTsv(OrElse(sites[k].nac, OrElse(system.nac, Str(<<>>)))),
               quoteTsv(OrElse(sites[k].sysid, OrElse(system.sysid, Str(<<>>)))),
               quoteTsv(OrElse(sites[k].wacn, OrElse(system.wacn, Str(<<>>)))),
               quoteTsv(OrElse(sites[k].bandplan, OrElse(system.bandplan, Str(<<"P", "2", "5", " ", "A", "u", "t", "o">>)))),
               quoteTsv(Str(TagsFileName(profile)))>>,
             <<"\t">>)]

\* String.prototype.replace(new RegExp(pat, 'g'), rep) for a literal pat:
\* the matches left to right, not overlapping
RECURSIVE ReplaceAll(_, _, _)
ReplaceAll(s, pat, rep) ==
    IF Len(s) < Len(pat) THEN s
    ELSE IF SubSeq(s, 1, Len(pat)) = pat
         THEN rep \o ReplaceAll(SubSeq(s, Len(pat) + 1, Len(s)), pat, rep)
         ELSE <<Head(s)>> \o ReplaceAll(Tail(s), pat, rep)

\* command is an array of string tokens
normalizeCommandForTrunk(profile, command) ==
    [k \in DOMAIN command |->
        IF command[k] = <<"{", "P", "R", "O", "F", "I", "L", "E", "S", "_", "D", "I", "R", "}", "/">> \o profile \o <<".", "t", "s", "v">>
        THEN <<"{", "P", "R", "O", "F", "I", "L", "E", "S", "_", "D", "I", "R", "}", "/">> \o profile \o <<".", "t", "r", "u", "n", "k", ".", "t", "s", "v">>
        ELSE ReplaceAll(command[k], profile \o <<".", "t", "s", "v">>, profile \o <<".", "t", "r", "u", "n", "k", ".", "t", "s", "v">>)]

DefaultCommand(profile) ==
    << <<"p", "y", "t", "h", "o", "n", "3">>, <<"/", "o", "p", "t", "/", "o", "p", "2", "5", "/", "o", "p", "2", "5", "/", "g", "r", "-", "o", "p", "2", "5", "_", "r", "e", "p", "e", "a", "t", "e", "r", "/", "a", "p", "p", "s", "/", "r", "x", ".", "p", "y">>, <<"-", "-", "a", "r", "g", "s">>, <<"r", "t", "l">>,
       <<"-", "S">>, <<"2", "4", "0", "0", "0", "0", "0">>, <<"-", "T">>, <<"{", "P", "R", "O", "F", "I", "L", "E", "S", "_", "D", "I", "R", "}", "/">> \o profile \o <<".", "t", "r", "u", "n", "k", ".", "t", "s", "v">>,
       <<"-", "2">>, <<"-", "V">>, <<"-", "O">>, <<"p", "l", "u", "g", "h", "w", ":", "L", "o", "o", "p", "b", "a", "c", "k", ",", "0", ",", "0">>, <<"-", "U">> >>

----------------------------------------------------------------------------
(* Bounded inputs                                                          *)

SeqsUpTo(S, n) == UNION {[1..k -> S] : k \in 0..n}

\* the profile names on disk; requests also name BadName
Profiles == { <<"A", "Z">> }

NoFiles == [p \in Profiles |-> None]

NoDirFiles == [n \in {} |-> None]

\* the environment of a deployment as the installer leaves it: a generated
\* ADMIN_TOKEN, CONTROL_PRIVATE_ONLY unset (on unless it is '0')
DefaultEnv == [ADMIN_TOKEN |-> <<"s", "3">>, CONTROL_PRIVATE_ONLY |-> TRUE]

FreshDisk ==
    /\ profileDocs = NoFiles
    /\ tgDocs = NoFiles
    /\ tagsFiles = NoFiles
    /\ trunkFiles = NoFiles
    /\ filterDocs = NoFiles
    /\ reloadFile = None
    /\ activeFile = None
    /\ legacyActiveFile = None
    /\ env = DefaultEnv
    /\ awaiting = <<>>
    /\ dirFiles = NoDirFiles
    /\ lastReq = None

disk == <<profileDocs, tgDocs, tagsFiles, trunkFiles, filterDocs, reloadFile,
          activeFile, legacyActiveFile, dirFiles, env, awaiting, lastReq>>

----------------------------------------------------------------------------
(* buildFilterPolicy on every talkgroup sequence of a bounded pool         *)

MaxPolicyEntries == 3

PolicyEntry(tgid, enabled, action) ==
    [tgid |-> tgid, label |-> <<"A">>, mode |-> IF action = "deny" THEN <<"D", "E">> ELSE <<"D">>,
     encrypted |-> action = "deny", category |-> Uncategorized, favorite |-> FALSE,
     filterAction |-> action, enabled |-> enabled]

PolicyEntryPool ==
    {PolicyEntry(t, en, a) : t \in {1201, 1299}, en \in BOOLEAN, a \in {"allow", "deny"}}

PolicyInit ==
    /\ FreshDisk
    /\ probe \in {[fn |-> "buildFilterPolicy", in |-> es, done |-> FALSE, out |-> None] :
                    es \in SeqsUpTo(PolicyEntryPool, MaxPolicyEntries)}

CallBuildFilterPolicy ==
    /\ probe.fn = "buildFilterPolicy" /\ ~probe.done
    /\ probe' = [probe EXCEPT !.done = TRUE, !.out = buildFilterPolicy(probe.in)]
    /\ UNCHANGED disk

PolicyNext == CallBuildFilterPolicy

PolicySpec == PolicyInit /\ [][PolicyNext]_vars

\* The tgids, in order, of the entries that are enabled and carry the action
TgidsWith(es, action) ==
    LET Test(e) == e.enabled /\ e.filterAction = action
        sel     == SelectSeq(es, Test)
    IN  [i \in DOMAIN sel |-> sel[i].tgid]

\* C1: buildFilterPolicy returns allow = the tgids of the enabled allow
\* entries, deny = the tgids of the enabled deny entries, policy = whitelist
\* iff some enabled entry is an allow entry (else blacklist), and effective =
\* allow under whitelist, deny otherwise (empty when no entry is enabled).
C1_FilterPolicy ==
    (probe.fn = "buildFilterPolicy" /\ probe.done) =>
        LET es == probe.in
            f  == probe.out
        IN  /\ f.allow = TgidsWith(es, "allow")
            /\ f.deny = TgidsWith(es, "deny")
            /\ f.policy \in {"whitelist", "blacklist"}
            /\ (f.policy = "whitelist") <=> (f.allow # <<>>)
            /\ (f.policy = "whitelist") <=>
                   (\E i \in DOMAIN es : es[i].enabled /\ es[i].filterAction = "allow")
            /\ f.effective = (IF f.policy = "whitelist" THEN f.allow ELSE f.deny)
            /\ ((\A i \in DOMAIN es : ~es[i].enabled) => f.effective = <<>>)

\* C1 witness: a call on a set with an enabled allow entry and an enabled
\* deny entry has returned the whitelist of the allow entry alone
C1_Witness ==
    /\ probe.fn = "buildFilterPolicy" /\ probe.done
    /\ \E i, j \in DOMAIN probe.in :
          /\ probe.in[i].enabled /\ probe.in[i].filterAction = "allow"
          /\ probe.in[j].enabled /\ probe.in[j].filterAction = "deny"
    /\ probe.out.policy = "whitelist"
    /\ probe.out.deny # <<>>
    /\ probe.out.effective = probe.out.allow

----------------------------------------------------------------------------
(* The two talkgroup normalizers on bounded inputs                         *)

MaxCsvRows == 2

MaxEntries == 2

E == <<>>

LongLabel == [i \in 1..130 |-> "x"]

HeadersFull == <<K_tgid, K_label, K_mode, K_encrypted, K_category, K_favorite, K_enabled>>

HeadersShort == <<K_tgid, K_label, K_mode>>

\* Data rows as typed: the cells tgid, label, mode, encrypted, category,
\* favorite, enabled (a row of fewer cells is a short line)
CsvRowPool ==
    { << <<"5">>, <<"A">>, <<"D">>, E, E, E, E >>,
      << <<"7">>, <<"B">>, <<"D", "E">>, E, E, E, E >>,
      << <<"5">>, <<"B">>, <<"D">>, <<"t", "r", "u", "e">>, <<"o", "p", "s">>,
         <<"y", "e", "s">>, <<"f", "a", "l", "s", "e">> >>,
      << <<"7">>, <<"A">>, <<"D", "E">>, <<"f", "a", "l", "s", "e">>, E, E,
         <<"t", "r", "u", "e">> >>,
      << E, <<"A">>, <<"D">>, E, E, E, E >>,
      << <<"x">>, <<"A">>, <<"D">>, E, E, E, E >>,
      << <<"7", "0", "0", "0", "0">>, <<"A">>, <<"D">>, E, E, E, E >>,
      << <<"1", ".", "5">>, <<"A">>, <<"D">>, E, E, E, E >>,
      << <<"-", "1">>, <<"A">>, <<"D">>, E, E, E, E >>,
      << <<"5">>, E, <<"D">>, E, E, E, E >>,
      << <<"9">>, LongLabel, <<"t", "e">>, E, E, E, E >>,
      << <<"7">>, <<"A">>, <<"X">>, E, E, E, E >>,
      << <<"3">>, <<"A">> >>,
      << <<"0">>, <<"A">>, <<"T">>, E, E, E, E >> }

\* The text a user pastes: the header line and one comma-separated line per
\* row, a row cut to the number of header columns
CsvLine(cells, n) == join(SubSeq(cells, 1, IF Len(cells) < n THEN Len(cells) ELSE n), <<",">>)

CsvText(headers, rows) ==
    join(<<join(headers, <<",">>)>> \o [k \in DOMAIN rows |-> CsvLine(rows[k], Len(headers))],
         <<"\n">>)

CsvInputs ==
    {[headers |-> h, rows |-> rs, text |-> Str(CsvText(h, rs))] :
        h \in {HeadersFull, HeadersShort}, rs \in SeqsUpTo(CsvRowPool, MaxCsvRows)}

Obj(tgid, label, mode, encrypted, enabled) ==
    [MissingEntry EXCEPT !.tgid = tgid, !.label = label, !.mode = mode,
                         !.encrypted = encrypted, !.enabled = enabled]

\* Structured entries as a client sends them (MissingEntry also stands for a
\* null element: entries[i] || {})
EntryPool ==
    { Obj(Num(5), Str(<<"A">>), Str(<<"D">>), Undef, Undef),
      Obj(Num(7), Str(<<"B">>), Str(<<"D", "E">>), Undef, Undef),
      [Obj(Num(5), Str(<<"B">>), Str(<<"D">>), Bool(TRUE), Bool(FALSE))
          EXCEPT !.category = Str(<<"o", "p", "s">>), !.favorite = Bool(TRUE)],
      Obj(Num(7), Undef, Str(<<"D", "E">>), Bool(FALSE), Bool(TRUE)),
      Obj(Str(E), Str(<<"A">>), Undef, Undef, Undef),
      Obj(Null, Str(<<"A">>), Undef, Undef, Undef),
      MissingEntry,
      Obj(Str(<<"x">>), Str(<<"A">>), Undef, Undef, Undef),
      Obj(Num(70000), Str(<<"A">>), Undef, Undef, Undef),
      Obj(Str(<<"1", "2">>), Str(<<" ", " ">>), Undef, Undef, Undef),
      Obj(Num(9), Num(5), Str(<<"t", "e">>), Undef, Undef),
      Obj(Num(9), Str(E), Undef, Undef, Undef),
      Obj(Str(<<" ">>), Str(<<"A">>), Undef, Undef, Undef),
      Obj(Num(3), Str(LongLabel), Undef, Undef, Undef),
      Obj(Num(-1), Str(<<"A">>), Undef, Undef, Undef),
      Obj(Str(<<"1", ".", "5">>), Str(<<"A">>), Undef, Undef, Undef) }

NormInit ==
    /\ FreshDisk
    /\ probe \in
          {[fn |-> "normalizeTalkgroupsCsv", in |-> i, done |-> FALSE, out |-> None] :
              i \in CsvInputs}
          \cup
          {[fn |-> "normalizeTalkgroupsEntries", in |-> es, done |-> FALSE, out |-> None] :
              es \in SeqsUpTo(EntryPool, MaxEntries)}

CallNormalizeTalkgroupsCsv ==
    /\ probe.fn = "normalizeTalkgroupsCsv" /\ ~probe.done
    /\ probe' = [probe EXCEPT !.done = TRUE, !.out = normalizeTalkgroupsCsv(probe.in.text)]
    /\ UNCHANGED disk

CallNormalizeTalkgroupsEntries ==
    /\ probe.fn = "normalizeTalkgroupsEntries" /\ ~probe.done
    /\ probe' = [probe EXCEPT !.done = TRUE, !.out = normalizeTalkgroupsEntries(probe.in)]
    /\ UNCHANGED disk

NormNext == CallNormalizeTalkgroupsCsv \/ CallNormalizeTalkgroupsEntries

NormSpec == NormInit /\ [][NormNext]_vars

CsvDone == probe.fn = "normalizeTalkgroupsCsv" /\ probe.done

EntriesDone == probe.fn = "normalizeTalkgroupsEntries" /\ probe.done

\* The input has both required headers (so rows are looked at)
CsvHeadersOk == K_tgid \in Range(probe.in.headers) /\ K_label \in Range(probe.in.headers)

\* The cell typed in column key of data row k ("" when the line is short),
\* and whether the header row has that column at all
TypedCell(k, key) ==
    LET h   == probe.in.headers
        row == probe.in.rows[k]
        i   == CHOOSE j \in DOMAIN h : h[j] = key
    IN  IF i <= Len(row) THEN row[i] ELSE <<>>

HasColumn(key) == key \in Range(probe.in.headers)

\* A tgid field that denotes an integer in [0, 65535]: a number, or a
\* non-blank string of decimal digits
DenotesTgid(v) ==
    \/ v.t = "number" /\ TgidOk(v.num)
    \/ v.t = "string" /\ Trim(v.s) # <<>> /\ AllDigits(Trim(v.s))
          /\ DigitsVal(Trim(v.s)) <= 65535

\* What Number() makes of data row k's tgid cell, and whether the normalizer
\* keeps the row: the cell converts to an integer in range (the empty cell
\* converts to 0) and the trimmed label is not empty
RowTgid(k) == StringToNumber(TypedCell(k, K_tgid))

RowKept(k) == TgidOk(RowTgid(k)) /\ Trim(TypedCell(k, K_label)) # <<>>

KeptRows == {k \in DOMAIN probe.in.rows : RowKept(k)}

LastKeptWith(tgid) ==
    CHOOSE k \in KeptRows :
        /\ IntOf(RowTgid(k)) = tgid
        /\ \A j \in KeptRows : IntOf(RowTgid(j)) = tgid => j <= k

\* The entry the normalizer makes of data row k when it is the only row
AloneEntry(k) ==
    normalizeTalkgroupsCsv(Str(CsvText(probe.in.headers, <<probe.in.rows[k]>>))).entries[1]

StrictlyAscending(es) == \A i, j \in DOMAIN es : i < j => es[i].tgid < es[j].tgid

\* C4 as stated, on inputs whose every tgid cell is a decimal integer in
\* range: one entry per distinct tgid, carrying the label of the LAST data
\* row with that tgid; strictly ascending.
C4_AsStated ==
    (CsvDone /\ CsvHeadersOk) =>
        LET rows  == probe.in.rows
            es    == probe.out.entries
            valid == {k \in DOMAIN rows : DenotesTgid(Str(TypedCell(k, K_tgid)))}
            last(k) == \A j \in valid :
                          TypedCell(j, K_tgid) = TypedCell(k, K_tgid) => j <= k
        IN  valid = DOMAIN rows =>
            /\ StrictlyAscending(es)
            /\ \A k \in valid : last(k) =>
                  \E i \in DOMAIN es :
                      /\ es[i].tgid = DigitsVal(TypedCell(k, K_tgid))
                      /\ es[i].label = Slice(Trim(TypedCell(k, K_label)), 128)

\* C4 (amended): one entry per distinct tgid among the rows the normalizer
\* keeps (tgid cell an integer in range under Number(), trimmed label not
\* empty), equal to the entry the last kept row with that tgid yields on its
\* own; strictly ascending by tgid; when all N rows are kept and their tgids
\* differ, N entries and no error.
C4_CsvLastKeptRowWins ==
    (CsvDone /\ CsvHeadersOk) =>
        LET rows == probe.in.rows
            es   == probe.out.entries
        IN  /\ StrictlyAscending(es)
            /\ {es[i].tgid : i \in DOMAIN es} = {IntOf(RowTgid(k)) : k \in KeptRows}
            /\ \A i \in DOMAIN es : es[i] = AloneEntry(LastKeptWith(es[i].tgid))
            /\ Len(probe.out.errors) = Len(rows) - Cardinality(KeptRows)
            /\ (/\ KeptRows = DOMAIN rows
                /\ \A j, k \in KeptRows : j # k => RowTgid(j) # RowTgid(k))
               => (Len(es) = Len(rows) /\ probe.out.errors = <<>>)

\* C4 witness: two kept rows share tgid 5 and the entry carries the later
\* row's label B
C4_Witness ==
    /\ CsvDone /\ CsvHeadersOk
    /\ Len(probe.in.rows) = 2 /\ KeptRows = {1, 2}
    /\ TypedCell(1, K_tgid) = <<"5">> /\ TypedCell(2, K_tgid) = <<"5">>
    /\ TypedCell(1, K_label) = <<"A">> /\ TypedCell(2, K_label) = <<"B">>
    /\ Len(probe.out.entries) = 1
    /\ probe.out.entries[1].label = <<"B">>

NormDone == CsvDone \/ EntriesDone

Omitted(k, key) == ~HasColumn(key) \/ TypedCell(k, key) = <<>>

\* C6: a CSV row that omits the encrypted value (column absent or cell empty)
\* yields encrypted = (mode ends in E), and one that omits the enabled value
\* yields enabled = true.
C6_OmittedOptionalsDefault ==
    (CsvDone /\ CsvHeadersOk) =>
        \A i \in DOMAIN probe.out.entries :
            LET e == probe.out.entries[i]
                k == LastKeptWith(e.tgid)
            IN  /\ Omitted(k, K_encrypted) => (e.encrypted <=> endsWith(e.mode, <<"E">>))
                /\ Omitted(k, K_enabled) => e.enabled

\* C7: a row is kept only if its tgid field denotes an integer in
\* [0, 65535]; every other row (empty, blank, null, non-numeric, out of
\* range) is dropped and recorded as exactly one error carrying its 1-based
\* row index (k + 1 for data row k of CSV input, k for structured entry k).
C7_BadTgidRowsDropped ==
    /\ (CsvDone /\ CsvHeadersOk) =>
          LET bad  == {k \in DOMAIN probe.in.rows :
                          ~DenotesTgid(Str(TypedCell(k, K_tgid)))}
              errs == probe.out.errors
          IN  /\ \A k \in bad :
                    Cardinality({j \in DOMAIN errs : errs[j].row = k + 1}) = 1
              /\ Len(probe.out.entries) <= Len(probe.in.rows) - Cardinality(bad)
    /\ EntriesDone =>
          LET bad  == {k \in DOMAIN probe.in : ~DenotesTgid(probe.in[k].tgid)}
              errs == probe.out.errors
          IN  /\ \A k \in bad :
                    Cardinality({j \in DOMAIN errs : errs[j].row = k}) = 1
              /\ Len(probe.out.entries) = Len(probe.in) - Cardinality(bad)

\* C8: every entry of either normalizer has a non-empty label of at most 128
\* characters (a structured entry without a usable label gets TG <tgid>).
C8_LabelNonEmpty ==
    NormDone =>
        \A i \in DOMAIN probe.out.entries :
            /\ probe.out.entries[i].label # <<>>
            /\ Len(probe.out.entries[i].label) <= 128

----------------------------------------------------------------------------
(* Request bodies and import files                                         *)

\* profileDoc.system of a document without one: every property undefined
NoSystem ==
    [name |-> Undef, sysid |-> Undef, wacn |-> Undef, nac |-> Undef, bandplan |-> Undef,
     sites |-> <<>>]

MaxSaveRows == 2

MaxPutEntries == 2

MaxSiteRows == 1

BadName == <<"a", "/", "b">>

RequestNames == Profiles \cup {BadName}

\* talkgroup rows a user pastes into a save or a preview
SaveRowPool ==
    { << <<"5">>, <<"A">>, <<"D">>, E, E, E, E >>,
      << <<"5">>, <<"B">>, <<"D", "E">>, E, E, E, E >>,
      << <<"x">>, <<"A">>, <<"D">>, E, E, E, E >> }

TalkgroupCsvBodies ==
    {Str(CsvText(HeadersFull, rs)) : rs \in SeqsUpTo(SaveRowPool, MaxSaveRows)} \cup {Undef}

\* entries a client PUTs
PutEntryPool ==
    { Obj(Num(5), Str(<<"A">>), Str(<<"D">>), Undef, Undef),
      Obj(Num(5), Str(<<"B">>), Str(<<"D", "E">>), Undef, Bool(FALSE)),
      Obj(Str(<<"x">>), Str(<<"A">>), Undef, Undef, Undef) }

PutBodies == SeqsUpTo(PutEntryPool, MaxPutEntries)

SitesHeaders == <<K_site_name, K_control_freq, K_alt_freqs, K_nac, K_sysid, K_wacn, K_bandplan>>

SiteRowPool ==
    { << <<"P", "h", "o", "e", "n", "i", "x">>, <<"7", "7", "1", ".", "1", "0", "6", "2", "5">>, <<"7", "7", "0", ".", "5", ";", "0">>, <<"2", "9", "3">>, E, E, E >>,
      << <<"M", "e", "s", "a">>, <<"x">>, E, E, E, E, E >> }

SitesCsvBodies ==
    {Str(CsvText(SitesHeaders, rs)) : rs \in SeqsUpTo(SiteRowPool, MaxSiteRows)} \cup {Undef}

\* a site object of an import file
JsonSite ==
    [name |-> Str(<<"M", "e", "s", "a">>), nac |-> Undef, sysid |-> Str(<<"2", "A", "1">>), wacn |-> Undef,
     bandplan |-> Undef, controlChannels |-> Arr(<< <<"7", "7", "0", ".", "5">> >>),
     alternateChannels |-> Undef]

JsonSystem == [NoSystem EXCEPT !.name = Str(<<"M", "e", "t", "r", "o">>), !.nac = Str(<<"2", "9", "3">>), !.sites = <<JsonSite>>]

JsonRaw(system, command, entries) ==
    [label |-> Undef, description |-> Str(<<"C", "o", "u", "n", "t", "y">>), notes |-> Undef, system |-> system,
     command |-> command, talkgroups |-> [entries |-> entries]]

\* what <profile>.import.json may hold
ImportFiles(profile) ==
    { [kind |-> "missing"], [kind |-> "invalid-json"], [kind |-> "no-arrays"],
      [kind |-> "document",
       raw |-> JsonRaw(JsonSystem, << <<"-", "T">>, profile \o <<".", "t", "s", "v">> >>,
                       << Obj(Num(5), Str(<<"A">>), Str(<<"D">>), Undef, Undef) >>)],
      [kind |-> "document",
       raw |-> JsonRaw([NoSystem EXCEPT !.sites = <<>>], <<>>,
                       << Obj(Num(5), Str(<<"A">>), Str(<<"D">>), Undef, Undef),
                          Obj(Str(<<"x">>), Str(<<"A">>), Undef, Undef, Undef) >>)] }

\* normalizeTalkgroupsCsv, normalizeTalkgroupsEntries and normalizeSitesCsv
\* on the request bodies, tabulated once
TalkgroupsCsvResult == [csv \in TalkgroupCsvBodies |-> normalizeTalkgroupsCsv(csv)]

TalkgroupsEntriesResult == [entries \in PutBodies |-> normalizeTalkgroupsEntries(entries)]

SitesCsvResult == [csv \in SitesCsvBodies |-> normalizeSitesCsv(csv)]

----------------------------------------------------------------------------
(* Profile / Talkgroup Store and the save / preview request handlers       *)

AllowedNameChars ==
    Range(UpperChars) \cup Range(LowerChars) \cup Range(DigitChars) \cup {"_", "-"}

\* /^[A-Za-z0-9_-]{1,64}$/
isSafeProfileName(name) ==
    Len(name) >= 1 /\ Len(name) <= 64 /\ \A i \in DOMAIN name : name[i] \in AllowedNameChars

\* fs.writeFileSync(path, out.join('\n') + '\n'): the file of those lines
TextFile(out) == [lines |-> out]

\* a file written by fs.writeFileSync / writeJson, for the request's log
W(file, profile) == [file |-> file, profile |-> profile]

Response(op, profile, status, outcome, nerrors, writes) ==
    [op |-> op, profile |-> profile, status |-> status, outcome |-> outcome,
     errors |-> nerrors, writes |-> writes]

SaveOps == {"put-talkgroups", "talkgroups-save", "sites-save", "json-import"}

PreviewOps == {"sites-preview", "talkgroups-preview"}

\* a handler that asks for a reload before it looks at the name
RejectNameAfterReload(op, profile) ==
    /\ ~isSafeProfileName(profile)
    /\ reloadFile' = [reason |-> op, profile |-> profile]
    /\ lastReq' = Response(op, profile, 400, "invalid-profile", 0, <<>>)
    /\ probe' = None
    /\ UNCHANGED <<profileDocs, tgDocs, tagsFiles, trunkFiles, filterDocs,
                   activeFile, legacyActiveFile, dirFiles>>
    /\ UNCHANGED <<env, awaiting>>

\* the first statement of every handler op that takes a profile name:
\* if (!isSafeProfileName(profile)) return res.status(400)
RejectName(op, profile) ==
    /\ ~isSafeProfileName(profile)
    /\ lastReq' = Response(op, profile, 400, "invalid-profile", 0, <<>>)
    /\ probe' = None
    /\ UNCHANGED <<profileDocs, tgDocs, tagsFiles, trunkFiles, filterDocs, reloadFile,
                   activeFile, legacyActiveFile, dirFiles>>
    /\ UNCHANGED <<env, awaiting>>

\* the document persistTalkgroups builds, and the three files it writes
TalkgroupsDoc(entries) == [filter |-> buildFilterPolicy(entries), entries |-> entries]

persistTalkgroupsSkipMirror(profile, entries) ==
    /\ tgDocs' = [tgDocs EXCEPT ![profile] = TalkgroupsDoc(entries)]
    /\ UNCHANGED filterDocs
    /\ tagsFiles' = [tagsFiles EXCEPT ![profile] = TextFile(TagsLines(entries))]

persistTalkgroups(profile, entries) ==
    /\ tgDocs' = [tgDocs EXCEPT ![profile] = TalkgroupsDoc(entries)]
    /\ filterDocs' = [filterDocs EXCEPT ![profile] =
                         [profile |-> profile, filter |-> TalkgroupsDoc(entries).filter]]
    /\ tagsFiles' = [tagsFiles EXCEPT ![profile] = TextFile(TagsLines(entries))]

PersistWrites(profile) == <<W("talkgroups", profile), W("filter", profile), W("tags", profile)>>

triggerReload(reason, profile) == reloadFile' = [reason |-> reason, profile |-> profile]

\* a PUT that requests a reload for a rejected body too
PutTalkgroupsReloadAlways(profile, entries) ==
    /\ isSafeProfileName(profile)
    /\ LET normalized == TalkgroupsEntriesResult[entries]
       IN  IF normalized.errors # <<>>
           THEN /\ lastReq' = Response("put-talkgroups", profile, 400, "errors",
                                       Len(normalized.errors), <<W("reload", profile)>>)
                /\ triggerReload("talkgroup-update", profile)
                /\ UNCHANGED <<tgDocs, filterDocs, tagsFiles>>
           ELSE /\ persistTalkgroups(profile, normalized.entries)
                /\ triggerReload("talkgroup-update", profile)
                /\ lastReq' = Response("put-talkgroups", profile, 200, "ok", 0,
                                       PersistWrites(profile) \o <<W("reload", profile)>>)
    /\ UNCHANGED <<profileDocs, trunkFiles, activeFile, legacyActiveFile, dirFiles, probe>>
    /\ UNCHANGED <<env, awaiting>>

\* PUT /api/talkgroups/:profile
PutTalkgroups(profile, entries) ==
    /\ isSafeProfileName(profile)
    /\ LET normalized == TalkgroupsEntriesResult[entries]
       IN  IF normalized.errors # <<>>
           THEN /\ lastReq' = Response("put-talkgroups", profile, 400, "errors",
                                       Len(normalized.errors), <<>>)
                /\ UNCHANGED <<tgDocs, filterDocs, tagsFiles, reloadFile>>
           ELSE /\ persistTalkgroups(profile, normalized.entries)
                /\ triggerReload("talkgroup-update", profile)
                /\ lastReq' = Response("put-talkgroups", profile, 200, "ok", 0,
                                       PersistWrites(profile) \o <<W("reload", profile)>>)
    /\ UNCHANGED <<profileDocs, trunkFiles, activeFile, legacyActiveFile, dirFiles, probe>>
    /\ UNCHANGED <<env, awaiting>>

\* a preview that persists what it parsed
ImportTalkgroupsPreviewPersisting(profile, csv) ==
    /\ isSafeProfileName(profile)
    /\ persistTalkgroups(profile, TalkgroupsCsvResult[csv].entries)
    /\ lastReq' = Response("talkgroups-preview", profile, 200, "ok",
                           Len(TalkgroupsCsvResult[csv].errors), <<>>)
    /\ UNCHANGED <<profileDocs, trunkFiles, reloadFile, activeFile, legacyActiveFile, dirFiles, probe>>
    /\ UNCHANGED <<env, awaiting>>

\* POST /api/import/talkgroups/:profile/preview
ImportTalkgroupsPreview(profile, csv) ==
    /\ isSafeProfileName(profile)
    /\ lastReq' = Response("talkgroups-preview", profile, 200, "ok",
                           Len(TalkgroupsCsvResult[csv].errors), <<>>)
    /\ UNCHANGED <<profileDocs, tgDocs, tagsFiles, trunkFiles, filterDocs, reloadFile,
                   activeFile, legacyActiveFile, dirFiles, probe>>
    /\ UNCHANGED <<env, awaiting>>

\* POST /api/import/talkgroups/:profile/save
ImportTalkgroupsSave(profile, csv) ==
    /\ isSafeProfileName(profile)
    /\ LET parsed == TalkgroupsCsvResult[csv]
       IN  IF parsed.errors # <<>>
           THEN /\ lastReq' = Response("talkgroups-save", profile, 400, "errors",
                                       Len(parsed.errors), <<>>)
                /\ UNCHANGED <<tgDocs, filterDocs, tagsFiles, reloadFile>>
           ELSE /\ persistTalkgroups(profile, parsed.entries)
                /\ triggerReload("talkgroup-import", profile)
                /\ lastReq' = Response("talkgroups-save", profile, 200, "ok", 0,
                                       PersistWrites(profile) \o <<W("reload", profile)>>)
    /\ UNCHANGED <<profileDocs, trunkFiles, activeFile, legacyActiveFile, dirFiles, probe>>
    /\ UNCHANGED <<env, awaiting>>

\* POST /api/import/sites/:profile/preview
ImportSitesPreview(profile, csv) ==
    /\ isSafeProfileName(profile)
    /\ lastReq' = Response("sites-preview", profile, 200, "ok",
                           Len(SitesCsvResult[csv].errors), <<>>)
    /\ UNCHANGED <<profileDocs, tgDocs, tagsFiles, trunkFiles, filterDocs, reloadFile,
                   activeFile, legacyActiveFile, dirFiles, probe>>
    /\ UNCHANGED <<env, awaiting>>

\* readJson(profileFile(profile), {})
EmptyProfileDoc ==
    [label |-> Undef, description |-> Undef, notes |-> Undef, system |-> NoSystem,
     command |-> <<>>, importSource |-> Undef]

ReadProfileDoc(profile) ==
    IF profileDocs[profile] = None THEN EmptyProfileDoc ELSE profileDocs[profile]

\* the document POST /api/import/sites/:profile/save writes
SitesSaveDoc(profile, existing, sites) ==
    [label |-> OrElse(existing.label, Str(profile)),
     description |-> OrElse(existing.description, Str(profile \o <<" ", "i", "m", "p", "o", "r", "t", "e", "d", " ", "p", "r", "o", "f", "i", "l", "e">>)),
     notes |-> OrElse(existing.notes, Str(<<"I", "m", "p", "o", "r", "t", "e", "d", " ", "f", "r", "o", "m", " ", "u", "s", "e", "r", "-", "s", "u", "p", "p", "l", "i", "e", "d", " ", "C", "S", "V">>)),
     system |-> [name |-> OrElse(existing.system.name, Str(profile)),
                 sysid |-> OrElse(existing.system.sysid, Null),
                 wacn |-> OrElse(existing.system.wacn, Null),
                 nac |-> OrElse(existing.system.nac, Null),
                 bandplan |-> OrElse(existing.system.bandplan, Str(<<"P", "2", "5", " ", "A", "u", "t", "o">>)),
                 sites |-> sites],
     command |-> IF existing.command # <<>>
                 THEN normalizeCommandForTrunk(profile, existing.command)
                 ELSE DefaultCommand(profile),
     importSource |-> Str(<<"s", "i", "t", "e", "s", "-", "c", "s", "v">>)]

\* readJson(talkgroupsFile(profile), { entries: [] }).entries
StoredEntries(profile) == IF tgDocs[profile] = None THEN <<>> ELSE tgDocs[profile].entries

\* ensureTagsFile: written from the stored talkgroups only when missing
ensureTagsFile(profile) ==
    tagsFiles' = IF tagsFiles[profile] # None THEN tagsFiles
                 ELSE [tagsFiles EXCEPT ![profile] = TextFile(TagsLines(StoredEntries(profile)))]

EnsureTagsWrites(profile) == IF tagsFiles[profile] # None THEN <<>> ELSE <<W("tags", profile)>>

\* POST /api/import/sites/:profile/save
ImportSitesSave(profile, csv) ==
    /\ isSafeProfileName(profile)
    /\ LET parsed == SitesCsvResult[csv]
       IN  IF parsed.errors # <<>>
           THEN /\ lastReq' = Response("sites-save", profile, 400, "errors",
                                       Len(parsed.errors), <<>>)
                /\ UNCHANGED <<profileDocs, tagsFiles, trunkFiles, reloadFile>>
           ELSE LET updated == SitesSaveDoc(profile, ReadProfileDoc(profile), parsed.sites)
                IN  /\ profileDocs' = [profileDocs EXCEPT ![profile] = updated]
                    /\ ensureTagsFile(profile)
                    /\ trunkFiles' = [trunkFiles EXCEPT ![profile] =
                            TextFile(TrunkLines(profile, parsed.sites, updated.system))]
                    /\ triggerReload("sites-import", profile)
                    /\ lastReq' = Response("sites-save", profile, 200, "ok", 0,
                           <<W("profile", profile)>> \o EnsureTagsWrites(profile)
                           \o <<W("trunk", profile), W("reload", profile)>>)
    /\ UNCHANGED <<tgDocs, filterDocs, activeFile, legacyActiveFile, dirFiles, probe>>
    /\ UNCHANGED <<env, awaiting>>

\* the document POST /api/import/profile/:profile/from-json-file writes
\* from the parsed file raw
JsonImportDoc(profile, fileName, raw) ==
    [label |-> OrElse(raw.label, Str(profile)),
     description |-> OrElse(raw.description, Str(profile \o <<" ", "i", "m", "p", "o", "r", "t", "e", "d", " ", "p", "r", "o", "f", "i", "l", "e">>)),
     notes |-> OrElse(raw.notes, Str(<<"I", "m", "p", "o", "r", "t", "e", "d", " ", "f", "r", "o", "m", " ", "u", "s", "e", "r", " ", "J", "S", "O", "N">>)),
     system |-> raw.system,
     command |-> IF raw.command # <<>>
                 THEN normalizeCommandForTrunk(profile, raw.command)
                 ELSE DefaultCommand(profile),
     importSource |-> Str(<<"j", "s", "o", "n", "-", "f", "i", "l", "e", ":">> \o fileName)]

\* req.body?.fileName || `${profile}.import.json`, no fileName given
ImportFileName(profile) == profile \o <<".", "i", "m", "p", "o", "r", "t", ".", "j", "s", "o", "n">>

\* POST /api/import/profile/:profile/from-json-file, with the default
\* fileName <profile>.import.json; file is what PROFILES_DIR holds under that
\* name: kind "missing", "invalid-json" (readJson gives null), "no-arrays"
\* (system.sites or talkgroups.entries is no array) or "document" with raw.
ImportProfileFromJsonFile(profile, file) ==
    /\ isSafeProfileName(profile)
    /\ \/ /\ file.kind # "document"
          /\ lastReq' = Response("json-import", profile,
                                 IF file.kind = "missing" THEN 404 ELSE 400, file.kind, 0, <<>>)
          /\ UNCHANGED <<profileDocs, tgDocs, tagsFiles, trunkFiles, filterDocs, reloadFile>>
       \/ /\ file.kind = "document"
          /\ profileDocs' = [profileDocs EXCEPT ![profile] =
                                JsonImportDoc(profile, ImportFileName(profile), file.raw)]
          /\ LET normalized == normalizeTalkgroupsEntries(file.raw.talkgroups.entries)
             IN  IF normalized.errors # <<>>
                 THEN /\ lastReq' = Response("json-import", profile, 400, "errors",
                                             Len(normalized.errors), <<W("profile", profile)>>)
                      /\ UNCHANGED <<tgDocs, filterDocs, tagsFiles, trunkFiles, reloadFile>>
                 ELSE /\ persistTalkgroups(profile, normalized.entries)
                      /\ trunkFiles' = [trunkFiles EXCEPT ![profile] =
                             TextFile(TrunkLines(profile, file.raw.system.sites,
                                                 file.raw.system))]
                      /\ triggerReload("profile-json-import", profile)
                      /\ lastReq' = Response("json-import", profile, 200, "ok", 0,
                             <<W("profile", profile)>> \o PersistWrites(profile)
                             \o <<W("trunk", profile), W("reload", profile)>>)
    /\ UNCHANGED <<activeFile, legacyActiveFile, dirFiles, probe>>
    /\ UNCHANGED <<env, awaiting>>

----------------------------------------------------------------------------
(* The store under save, preview and import requests                       *)

Init ==
    /\ FreshDisk
    /\ probe = None

Next ==
    \/ \E profile \in RequestNames, entries \in PutBodies : PutTalkgroups(profile, entries)
    \/ \E profile \in RequestNames, csv \in TalkgroupCsvBodies :
          ImportTalkgroupsPreview(profile, csv)
    \/ \E profile \in RequestNames, csv \in TalkgroupCsvBodies :
          ImportTalkgroupsSave(profile, csv)
    \/ \E profile \in RequestNames, csv \in SitesCsvBodies : ImportSitesPreview(profile, csv)
    \/ \E profile \in RequestNames, csv \in SitesCsvBodies : ImportSitesSave(profile, csv)
    \/ \E profile \in RequestNames :
          \E file \in ImportFiles(profile) : ImportProfileFromJsonFile(profile, file)
    \/ \E op \in SaveOps \cup PreviewOps, profile \in RequestNames : RejectName(op, profile)

Spec == Init /\ [][Next]_vars

----------------------------------------------------------------------------
(* Properties of the store                                                 *)

Stored(profile) == tgDocs[profile] # None

\* C2: at every request boundary, for a profile with a stored talkgroups
\* document, the filter in <profile>.talkgroups.json and the filter in
\* <profile>.filter.json both equal buildFilterPolicy of the stored entries,
\* and <profile>.tags.tsv has, after its header, one row per stored entry in
\* the same order (row k opens with the quoted tgid of entry k).
C2_StoredFilterMatchesEntries ==
    \A p \in Profiles :
        Stored(p) =>
            LET entries == tgDocs[p].entries
            IN  /\ tgDocs[p].filter = buildFilterPolicy(entries)
                /\ filterDocs[p] # None
                /\ filterDocs[p].filter = buildFilterPolicy(entries)
                /\ tagsFiles[p] # None
                /\ Len(tagsFiles[p].lines) = Len(entries) + 1
                /\ \A k \in DOMAIN entries :
                      startsWith(tagsFiles[p].lines[k + 1],
                                 <<"\"">> \o IntToStr(entries[k].tgid) \o <<"\"", "\t">>)

\* a talkgroup CSV save has just replaced the stored set by one whose only
\* entry is denied, after the tags file and the mirror were written
C2_Witness ==
    /\ lastReq # None /\ lastReq.op = "talkgroups-save" /\ lastReq.status = 200
    /\ \E p \in Profiles :
          /\ Stored(p) /\ tgDocs[p].filter.deny = <<5>> /\ tgDocs[p].filter.policy = "blacklist"
          /\ profileDocs[p] # None

\* C3: the entries stored for a profile hold no tgid twice and are sorted
\* ascending by tgid.
C3_StoredEntriesUniqueSorted ==
    \A p \in Profiles : Stored(p) => StrictlyAscending(tgDocs[p].entries)

\* C9: a save request rejected because normalization reported an error
\* leaves the profile document, talkgroups document, filter mirror, tags
\* file, trunk file and reload marker as they were before the request.
C9_RejectedSaveChangesNothing ==
    [][(lastReq'.op \in SaveOps /\ lastReq'.outcome = "errors")
          => UNCHANGED <<profileDocs, tgDocs, filterDocs, tagsFiles, trunkFiles, reloadFile>>]_vars

\* C10: a sites or talkgroups preview request, with or without row errors,
\* writes no file: profile documents, talkgroups documents, filter mirrors,
\* tags and trunk files, the active-profile pointer and the reload marker
\* are unchanged.
C10_PreviewWritesNothing ==
    [][lastReq'.op \in PreviewOps
          => /\ UNCHANGED <<profileDocs, tgDocs, filterDocs, tagsFiles, trunkFiles,
                            activeFile, legacyActiveFile, dirFiles, reloadFile>>
             /\ lastReq'.writes = <<>>]_vars

\* a talkgroups preview that reported row errors has answered while a
\* profile has stored talkgroups and a reload marker from an earlier save
C10_Witness ==
    /\ lastReq # None /\ lastReq.op = "talkgroups-preview" /\ lastReq.errors > 0
    /\ reloadFile # None
    /\ \E p \in Profiles : Stored(p) /\ tgDocs[p].entries # <<>>

\* the places of file in the request's write log
WritesOf(req, file) == {i \in DOMAIN req.writes : req.writes[i].file = file}

\* C11: a save request answered 200 wrote the reload marker, naming the
\* saved profile, as the last write of the request, after every document
\* and tags / trunk file the request changed; a save request answered
\* otherwise left the marker alone.
C11_ReloadMarkerLast ==
    [][lastReq'.op \in SaveOps =>
          IF lastReq'.status = 200
          THEN /\ reloadFile' # None /\ reloadFile'.profile = lastReq'.profile
               /\ WritesOf(lastReq', "reload") = {Len(lastReq'.writes)}
               /\ profileDocs' # profileDocs => WritesOf(lastReq', "profile") # {}
               /\ tgDocs' # tgDocs => WritesOf(lastReq', "talkgroups") # {}
               /\ filterDocs' # filterDocs => WritesOf(lastReq', "filter") # {}
               /\ tagsFiles' # tagsFiles => WritesOf(lastReq', "tags") # {}
               /\ trunkFiles' # trunkFiles => WritesOf(lastReq', "trunk") # {}
          ELSE /\ UNCHANGED reloadFile
               /\ WritesOf(lastReq', "reload") = {}]_vars

\* a JSON-file import has been answered 200 after writing the profile
\* document, the three talkgroup files, the trunk file and then the marker
C11_Witness ==
    /\ lastReq # None /\ lastReq.op = "json-import" /\ lastReq.status = 200
    /\ Len(lastReq.writes) = 6
    /\ reloadFile = [reason |-> "profile-json-import", profile |-> lastReq.profile]

----------------------------------------------------------------------------
(* Trunk Validator                                                         *)

\* The nested while loops of parseQuotedTsvLine, one character at a time.
\* at = "start": the top of the outer loop; "field": inside the inner loop;
\* "sep": after the closing quote, where fields.push(value) is done and a
\* tab is expected.  skip is set when i += 2 consumed this character too.
QuotedTsvStep(st, line, i) ==
    IF ~st.ok THEN st
    ELSE IF st.skip THEN [st EXCEPT !.skip = FALSE]
    ELSE IF st.at = "start" THEN
        IF line[i] # "\""
        THEN [st EXCEPT !.ok = FALSE, !.error = <<"f", "i", "e", "l", "d", " ", "m", "u", "s", "t", " ", "s", "t", "a", "r", "t", " ", "w", "i", "t", "h", " ", "d", "o", "u", "b", "l", "e", " ", "q", "u", "o", "t", "e">>]
        ELSE [st EXCEPT !.at = "field", !.value = <<>>]
    ELSE IF st.at = "field" THEN
        IF line[i] = "\"" THEN
            IF i + 1 <= Len(line) /\ line[i + 1] = "\""
            THEN [st EXCEPT !.value = Append(@, "\""), !.skip = TRUE]
            ELSE [st EXCEPT !.fields = Append(@, st.value), !.at = "sep"]
        ELSE [st EXCEPT !.value = Append(@, line[i])]
    ELSE IF line[i] # "\t"
        THEN [st EXCEPT !.ok = FALSE, !.error = <<"f", "i", "e", "l", "d", "s", " ", "m", "u", "s", "t", " ", "b", "e", " ", "t", "a", "b", "-", "s", "e", "p", "a", "r", "a", "t", "e", "d", " ", "q", "u", "o", "t", "e", "d", " ", "v", "a", "l", "u", "e", "s">>]
        ELSE [st EXCEPT !.at = "start"]

\* the characters lo..hi in order (halved to keep the evaluation shallow)
RECURSIVE ScanQuotedTsv(_, _, _, _)
ScanQuotedTsv(st, line, lo, hi) ==
    IF lo > hi THEN st
    ELSE IF lo = hi THEN QuotedTsvStep(st, line, lo)
    ELSE LET mid  == (lo + hi) \div 2
             left == ScanQuotedTsv(st, line, lo, mid)
         IN  IF left.skip \in BOOLEAN
             THEN ScanQuotedTsv(left, line, mid + 1, hi)
             ELSE left

\* the inner loop left by i reaching line.length pushes the open value too
QuotedTsvResult(st) ==
    IF ~st.ok THEN [ok |-> FALSE, error |-> st.error, fields |-> <<>>]
    ELSE [ok |-> TRUE, error |-> <<>>,
          fields |-> IF st.at = "field" THEN Append(st.fields, st.value) ELSE st.fields]

parseQuotedTsvLine(line) ==
    QuotedTsvResult(ScanQuotedTsv([ok |-> TRUE, error |-> <<>>, fields |-> <<>>,
                                   value |-> <<>>, at |-> "start", skip |-> FALSE],
                                  line, 1, Len(line)))

IsTagsFileField(f) == endsWith(toLowerCase(f), <<".", "t", "a", "g", "s", ".", "t", "s", "v">>)

TrimAll(fields) == [k \in DOMAIN fields |-> Trim(fields[k])]

findTagFilesInFields(fields) == FilterBoolean(TrimAll(SelectSeq(fields, IsTagsFileField)))

TrunkFileName(profile) == profile \o <<".", "t", "r", "u", "n", "k", ".", "t", "s", "v">>

LegacyTrunkName(profile) == profile \o <<".", "t", "s", "v">>

\* path.isAbsolute on POSIX
isAbsolute(p) == p # <<>> /\ Head(p) = "/"

\* fs.readFileSync(path, 'utf8') of a file kept as its lines
FileText(file) == join(file.lines, <<"\n">>) \o <<"\n">>

\* Set.prototype.add on the insertion-ordered set
SetAdd(xs, x) == IF x \in Range(xs) THEN xs ELSE Append(xs, x)

RECURSIVE SetAddAll(_, _)
SetAddAll(xs, ys) == IF ys = <<>> THEN xs ELSE SetAddAll(SetAdd(xs, Head(ys)), Tail(ys))

LineError(idx, text) == Str(<<"L", "i", "n", "e", " ">> \o IntToStr(idx + 1) \o <<":", " ">> \o text)

\* body of the for loop of validateProfileFiles at index idx (0-based),
\* parsed being parseQuotedTsvLine(raw)
ValidateParsed(st, idx, parsed) ==
    IF ~parsed.ok
    THEN [st EXCEPT !.firstError = LineError(idx, parsed.error), !.halted = TRUE]
    ELSE IF st.expectedCols = Null /\ Len(parsed.fields) < 2
    THEN [st EXCEPT !.expectedCols = Num(Len(parsed.fields)), !.halted = TRUE,
                    !.firstError = LineError(idx, <<"t", "r", "u", "n", "k", ".", "t", "s", "v", " ", "h", "a", "s", " ", "i", "n", "v", "a", "l", "i", "d", " ", "c", "o", "l", "u", "m", "n", " ", "c", "o", "u", "n", "t", " ", "(">>
                                                  \o IntToStr(Len(parsed.fields)) \o <<")">>)]
    ELSE IF st.expectedCols # Null /\ Num(Len(parsed.fields)) # st.expectedCols
    THEN [st EXCEPT !.halted = TRUE,
                    !.firstError = LineError(idx, <<"e", "x", "p", "e", "c", "t", "e", "d", " ">> \o String(st.expectedCols)
                                                  \o <<" ", "c", "o", "l", "u", "m", "n", "s", " ", "b", "u", "t", " ", "f", "o", "u", "n", "d", " ">>
                                                  \o IntToStr(Len(parsed.fields)))]
    ELSE [st EXCEPT !.expectedCols = Num(Len(parsed.fields)),
                    !.parsedRows = @ + 1,
                    !.examined = Append(@, idx + 1),
                    !.referencedTags = SetAddAll(@, findTagFilesInFields(parsed.fields))]

ValidateLine(st, idx, raw) ==
    IF raw = <<>> \/ startsWith(raw, <<"#">>) THEN st
    ELSE ValidateParsed(st, idx, parseQuotedTsvLine(raw))

\* the for loop over lines from index idx on, left at the first error
RECURSIVE ValidateLines(_, _, _)
ValidateLines(st, lines, idx) ==
    IF idx >= Len(lines) \/ st.halted THEN st
    ELSE ValidateLines(ValidateLine(st, idx, Trim(lines[idx + 1])), lines, idx + 1)

\* /^[A-Za-z0-9_.-]{1,128}$/.test(safe) && safe.toLowerCase().endsWith('.tags.tsv')
IsSafeTagsFileName(safe) ==
    /\ Len(safe) >= 1 /\ Len(safe) <= 128
    /\ \A i \in DOMAIN safe : safe[i] \in AllowedNameChars \cup {"."}
    /\ endsWith(toLowerCase(safe), <<".", "t", "a", "g", "s", ".", "t", "s", "v">>)

\* the file ensureNamedTagsFile writes: '"tgid"\t"tag"\t"mode"\n'
EmptyTagsFile == TextFile(<<TagsHeader>>)

\* findCaseInsensitiveProfileFile(fileName) over the directory listing names
\* (Null when nothing matches; readdir order decides between several)
findCaseInsensitiveProfileFile(fileName, names) ==
    IF fileName = <<>> \/ ~\E n \in names : toLowerCase(n) = toLowerCase(fileName)
    THEN Null
    ELSE Str(CHOOSE n \in names : toLowerCase(n) = toLowerCase(fileName))

MissingTagError(tag, createMissingTags, caseVariant) ==
    IF Truthy(caseVariant)
    THEN Str(<<"R", "e", "f", "e", "r", "e", "n", "c", "e", "d", " ", "t", "a", "g", " ", "f", "i", "l", "e", " ", "c", "a", "s", "e", " ", "m", "i", "s", "m", "a", "t", "c", "h", ":", " ", "'">> \o tag \o <<"'", " ", "n", "o", "t", " ", "f", "o", "u", "n", "d", ",", " ", "b", "u", "t", " ", "'">>
             \o caseVariant.s \o <<"'", " ", "e", "x", "i", "s", "t", "s">>)
    ELSE IF createMissingTags
    THEN Str(<<"R", "e", "f", "e", "r", "e", "n", "c", "e", "d", " ", "t", "a", "g", " ", "f", "i", "l", "e", " ", "i", "s", " ", "m", "i", "s", "s", "i", "n", "g", ":", " ">> \o tag)
    ELSE Str(<<"R", "e", "f", "e", "r", "e", "n", "c", "e", "d", " ", "t", "a", "g", " ", "f", "i", "l", "e", " ", "i", "s", " ", "m", "i", "s", "s", "i", "n", "g", ":", " ">> \o tag
             \o <<" ", "(", "r", "e", "-", "r", "u", "n", " ", "w", "i", "t", "h", " ", "?", "c", "r", "e", "a", "t", "e", "M", "i", "s", "s", "i", "n", "g", "T", "a", "g", "s", "=", "1", " ", "t", "o", " ", "c", "r", "e", "a", "t", "e", " ", "a", "n", " ", "e", "m", "p", "t", "y", " ", "f", "i", "l", "e", ")">>)

\* body of the for loop over referencedTags when tag does not exist
MissingTag(st, tag, createMissingTags, names) ==
    IF ~isAbsolute(tag) /\ createMissingTags
    THEN IF IsSafeTagsFileName(tag)
         THEN [st EXCEPT !.createdTagFiles = Append(@, tag)]
         ELSE [st EXCEPT !.halted = TRUE,
                         !.firstError = Str(<<"U", "n", "a", "b", "l", "e", " ", "t", "o", " ", "c", "r", "e", "a", "t", "e", " ", "m", "i", "s", "s", "i", "n", "g", " ", "t", "a", "g", " ", "f", "i", "l", "e", " ", "'">> \o tag
                                            \o <<"'", ":", " ", "I", "n", "v", "a", "l", "i", "d", " ", "t", "a", "g", "s", " ", "f", "i", "l", "e", " ", "n", "a", "m", "e", ":", " ">> \o tag)]
    ELSE [st EXCEPT !.halted = TRUE,
                    !.firstError =
                        MissingTagError(tag, createMissingTags,
                            IF isAbsolute(tag) THEN Null
                            ELSE findCaseInsensitiveProfileFile(tag,
                                    {n \in names : ~isAbsolute(n)}))]

\* the for loop over referencedTags from the k-th on; names are the files
\* that exist when the loop starts
RECURSIVE CheckTags(_, _, _, _)
CheckTags(st, k, createMissingTags, names) ==
    IF k > Len(st.referencedTags) \/ st.halted THEN st
    ELSE IF st.referencedTags[k] \in names \cup Range(st.createdTagFiles)
    THEN CheckTags(st, k + 1, createMissingTags, names)
    ELSE CheckTags(MissingTag(st, st.referencedTags[k], createMissingTags, names),
                   k + 1, createMissingTags, names)

\* if (!firstError && parsedRows === 0) ...; if (!firstError && size === 0) ...
AfterLines(st, profile) ==
    IF st.firstError # Null THEN st
    ELSE IF st.parsedRows = 0
    THEN [st EXCEPT !.firstError = Str(<<"N", "o", " ", "u", "s", "a", "b", "l", "e", " ", "r", "o", "w", "s", " ", "f", "o", "u", "n", "d", " ", "i", "n", " ", "t", "r", "u", "n", "k", ".", "t", "s", "v">>), !.halted = TRUE]
    ELSE IF st.referencedTags = <<>>
    THEN [st EXCEPT !.referencedTags = <<TagsFileName(profile)>>]
    ELSE st

ValidationResult(st, profile) ==
    [ok |-> ~Truthy(st.firstError), error |-> st.firstError, firstError |-> st.firstError,
     details |-> [profile |-> profile, trunkFile |-> TrunkFileName(profile),
                  parsedRows |-> st.parsedRows, expectedColumns |-> st.expectedCols,
                  referencedTagFiles |-> st.referencedTags,
                  createdTagFiles |-> st.createdTagFiles],
     examined |-> st.examined]

MissingTrunkResult(profile) ==
    [ok |-> FALSE,
     error |-> Str(<<"M", "i", "s", "s", "i", "n", "g", " ", "r", "e", "q", "u", "i", "r", "e", "d", " ", "t", "r", "u", "n", "k", " ", "f", "i", "l", "e", ":", " ">> \o TrunkFileName(profile)),
     firstError |-> Str(<<"M", "i", "s", "s", "i", "n", "g", " ", "r", "e", "q", "u", "i", "r", "e", "d", " ", "t", "r", "u", "n", "k", " ", "f", "i", "l", "e", ":", " ">> \o TrunkFileName(profile))]

\* validateProfileFiles from the existence check of the trunk file on: trunk
\* is the trunk file and names the files that exist after
\* migrateLegacyTrunkFile and ensureTagsFile.  examined lists the 1-based
\* numbers of the lines counted in parsedRows.
ValidateTrunk(profile, createMissingTags, trunk, names) ==
    IF trunk = None THEN MissingTrunkResult(profile)
    ELSE ValidationResult(
            CheckTags(AfterLines(ValidateLines([expectedCols |-> Null, firstError |-> Null,
                                                referencedTags |-> <<>>, parsedRows |-> 0,
                                                createdTagFiles |-> <<>>, halted |-> FALSE,
                                                examined |-> <<>>],
                                               split(RemoveChar(FileText(trunk), "\r"), "\n"),
                                               0),
                                 profile),
                      1, createMissingTags, names),
            profile)

----------------------------------------------------------------------------
(* The profile directory under the writers, the validator and the          *)
(* requests that run it                                                    *)

\* fs.readdirSync(PROFILES_DIR) as far as the validator looks: the tags and
\* trunk files and the other files (a document's name never ends in
\* '.tags.tsv'), and the absolute paths that exist
ExistingNames ==
    {TagsFileName(p) : p \in {q \in DOMAIN tagsFiles : tagsFiles[q] # None}}
        \cup {TrunkFileName(p) : p \in {q \in DOMAIN trunkFiles : trunkFiles[q] # None}}
        \cup DOMAIN dirFiles

\* a writer that keeps what the file held and adds its lines
writeTrunkTsvAppending(profile, sites, system) ==
    trunkFiles' = [trunkFiles EXCEPT ![profile] =
                      TextFile((IF @ = None THEN <<>> ELSE @.lines)
                               \o TrunkLines(profile, sites, system))]

\* writeTrunkTsv(profile, sites, profileDoc), system being profileDoc.system
writeTrunkTsv(profile, sites, system) ==
    trunkFiles' = [trunkFiles EXCEPT ![profile] = TextFile(TrunkLines(profile, sites, system))]

\* a writer that keeps the rows the file held
writeTagsTsvAppending(profile, entries) ==
    tagsFiles' = [tagsFiles EXCEPT ![profile] =
                     TextFile((IF @ = None THEN <<>> ELSE @.lines) \o TagsLines(entries))]

writeTagsTsv(profile, entries) ==
    tagsFiles' = [tagsFiles EXCEPT ![profile] = TextFile(TagsLines(entries))]

\* a call of writeTrunkTsv by any caller
CallWriteTrunkTsv(profile, sites, system) ==
    /\ writeTrunkTsv(profile, sites, system)
    /\ lastReq' = None
    /\ probe' = [fn |-> "writeTrunkTsv",
                 in |-> [profile |-> profile, sites |-> sites, system |-> system]]
    /\ UNCHANGED <<profileDocs, tgDocs, tagsFiles, filterDocs, reloadFile, activeFile,
                   legacyActiveFile, dirFiles>>
    /\ UNCHANGED <<env, awaiting>>

\* a call of writeTagsTsv by any caller
CallWriteTagsTsv(profile, entries) ==
    /\ writeTagsTsv(profile, entries)
    /\ lastReq' = None
    /\ probe' = [fn |-> "writeTagsTsv", in |-> [profile |-> profile, entries |-> entries]]
    /\ UNCHANGED <<profileDocs, tgDocs, trunkFiles, filterDocs, reloadFile, activeFile,
                   legacyActiveFile, dirFiles>>
    /\ UNCHANGED <<env, awaiting>>

\* the trunk file after migrateLegacyTrunkFile; copyOk is whether
\* fs.copyFileSync succeeds (its failure is swallowed)
MigratedTrunk(profile, copyOk) ==
    IF trunkFiles[profile] # None THEN trunkFiles[profile]
    ELSE IF LegacyTrunkName(profile) \in DOMAIN dirFiles /\ copyOk
    THEN dirFiles[LegacyTrunkName(profile)]
    ELSE None

\* what validateProfileFiles(profile, {createMissingTags}) returns
ValidateResultOf(profile, createMissingTags, copyOk) ==
    ValidateTrunk(profile, createMissingTags, MigratedTrunk(profile, copyOk),
                  ExistingNames \cup {TagsFileName(profile)}
                      \cup (IF MigratedTrunk(profile, copyOk) # None
                            THEN {TrunkFileName(profile)} ELSE {}))

CreatedBy(result) ==
    IF "details" \in DOMAIN result THEN Range(result.details.createdTagFiles) ELSE {}

\* validateProfileFiles returning result: migrateLegacyTrunkFile, then
\* ensureTagsFile, then the files ensureNamedTagsFile created
ValidateEffects(profile, copyOk, result) ==
    /\ trunkFiles' = [trunkFiles EXCEPT ![profile] = MigratedTrunk(profile, copyOk)]
    /\ tagsFiles' =
          [q \in DOMAIN tagsFiles |->
              IF tagsFiles[q] # None THEN tagsFiles[q]
              ELSE IF q = profile THEN TextFile(TagsLines(StoredEntries(profile)))
              ELSE IF TagsFileName(q) \in CreatedBy(result) THEN EmptyTagsFile
              ELSE None]
    /\ dirFiles' =
          [n \in DOMAIN dirFiles
                   \cup (CreatedBy(result) \ {TagsFileName(q) : q \in DOMAIN tagsFiles}) |->
              IF n \in DOMAIN dirFiles THEN dirFiles[n] ELSE EmptyTagsFile]

ValidateWrites(profile, copyOk, result) ==
    (IF trunkFiles[profile] = None /\ MigratedTrunk(profile, copyOk) # None
     THEN <<W("trunk", profile)>> ELSE <<>>)
        \o EnsureTagsWrites(profile)
        \o (IF CreatedBy(result) # {} THEN <<W("named-tags", profile)>> ELSE <<>>)

ValidateCall(profile, createMissingTags, result) ==
    [fn |-> "validateProfileFiles",
     in |-> [profile |-> profile, createMissingTags |-> createMissingTags],
     out |-> result]

\* GET /api/validate-profile/:profile?createMissingTags=query
GetValidateProfileOf(profile, query, copyOk, result) ==
    /\ isSafeProfileName(profile)
    /\ ValidateEffects(profile, copyOk, result)
    /\ probe' = ValidateCall(profile, parseBool(query), result)
    /\ lastReq' = Response("validate-profile", profile, IF result.ok THEN 200 ELSE 400,
                           IF result.ok THEN "ok" ELSE "invalid", IF result.ok THEN 0 ELSE 1,
                           ValidateWrites(profile, copyOk, result))
    /\ UNCHANGED <<profileDocs, tgDocs, filterDocs, reloadFile, activeFile,
                   legacyActiveFile>>
    /\ UNCHANGED <<env, awaiting>>

GetValidateProfile(profile, query, copyOk) ==
    GetValidateProfileOf(profile, query, copyOk,
                         ValidateResultOf(profile, parseBool(query), copyOk))

\* a writer of the header that does not look whether the file exists
ensureNamedTagsFileOverwriting(safe) ==
    IF \E q \in DOMAIN tagsFiles : safe = TagsFileName(q)
    THEN /\ tagsFiles' = [q \in DOMAIN tagsFiles |->
                             IF safe = TagsFileName(q) THEN EmptyTagsFile ELSE tagsFiles[q]]
         /\ UNCHANGED dirFiles
    ELSE /\ dirFiles' = [n \in DOMAIN dirFiles \cup {safe} |-> 
                            IF n = safe THEN EmptyTagsFile ELSE dirFiles[n]]
         /\ UNCHANGED tagsFiles

\* ensureNamedTagsFile(tagFileName) for a name that passes its test
ensureNamedTagsFile(safe) ==
    IF \E q \in DOMAIN tagsFiles : safe = TagsFileName(q)
    THEN /\ tagsFiles' = [q \in DOMAIN tagsFiles |->
                             IF safe = TagsFileName(q) /\ tagsFiles[q] = None
                             THEN EmptyTagsFile ELSE tagsFiles[q]]
         /\ UNCHANGED dirFiles
    ELSE /\ dirFiles' = [n \in DOMAIN dirFiles \cup {safe} |->
                            IF n \in DOMAIN dirFiles THEN dirFiles[n] ELSE EmptyTagsFile]
         /\ UNCHANGED tagsFiles

\* POST /api/profiles/:profile/tags/init behind guardControl; guard is the
\* status guardControl answers with, or 200 when it calls next()
PostTagsInitOf(profile, guard, requestedName) ==
    /\ guard # 200 \/ isSafeProfileName(profile)
    /\ IF guard # 200
       THEN /\ lastReq' = Response("tags-init", profile, guard, "guard", 1, <<>>)
            /\ UNCHANGED <<tagsFiles, dirFiles>>
       ELSE IF ~IsSafeTagsFileName(requestedName)
       THEN /\ lastReq' = Response("tags-init", profile, 400, "invalid-tag-file", 1, <<>>)
            /\ UNCHANGED <<tagsFiles, dirFiles>>
       ELSE /\ ensureNamedTagsFile(requestedName)
            /\ lastReq' = Response("tags-init", profile, 200, "ok", 0,
                                   IF requestedName \in ExistingNames THEN <<>>
                                   ELSE <<W("named-tags", profile)>>)
    /\ probe' = None
    /\ UNCHANGED <<profileDocs, tgDocs, trunkFiles, filterDocs, reloadFile, activeFile,
                   legacyActiveFile>>
    /\ UNCHANGED <<env, awaiting>>

\* String(req.body?.tagFile || `${profile}.tags.tsv`).trim()
PostTagsInit(profile, guard, tagFile) ==
    PostTagsInitOf(profile, guard, Trim(String(OrElse(tagFile, Str(TagsFileName(profile))))))

\* { profile, changedAt, changedBy } as parsed
Pointer(profile, changedBy) == [profile |-> profile, changedBy |-> changedBy]

\* the decoder restart a request issued, for the request's log
Restart == [file |-> "decoder-restart", profile |-> <<>>]

\* a switch that moves the pointer before it looks at the validation
PostSwitchOfUnvalidated(profile, restartOk, copyOk, result) ==
    /\ isSafeProfileName(profile)
    /\ IF profileDocs[profile] = None
       THEN /\ lastReq' = Response("switch", profile, 404, "not-found", 1, <<>>)
            /\ probe' = None
            /\ UNCHANGED <<trunkFiles, tagsFiles, dirFiles, activeFile, reloadFile>>
       ELSE /\ ValidateEffects(profile, copyOk, result)
            /\ probe' = ValidateCall(profile, FALSE, result)
            /\ activeFile' = Pointer(Str(profile), "api")
            /\ IF ~result.ok
               THEN /\ lastReq' = Response("switch", profile, 400, "invalid", 1,
                                           ValidateWrites(profile, copyOk, result)
                                               \o <<W("active", profile)>>)
                    /\ UNCHANGED reloadFile
               ELSE /\ triggerReload("profile-switch", profile)
                    /\ lastReq' = Response("switch", profile, 200,
                                           IF restartOk THEN "ok" ELSE "restart-failed", 0,
                                           ValidateWrites(profile, copyOk, result)
                                               \o <<W("active", profile), W("reload", profile),
                                                    Restart>>)
    /\ UNCHANGED <<profileDocs, tgDocs, filterDocs, legacyActiveFile>>
    /\ UNCHANGED <<env, awaiting>>

\* POST /api/profiles/switch; restartOk is what dockerAction('restart') reports
PostSwitchOf(profile, restartOk, copyOk, result) ==
    /\ isSafeProfileName(profile)
    /\ IF profileDocs[profile] = None
       THEN /\ lastReq' = Response("switch", profile, 404, "not-found", 1, <<>>)
            /\ probe' = None
            /\ UNCHANGED <<trunkFiles, tagsFiles, dirFiles, activeFile, reloadFile>>
       ELSE /\ ValidateEffects(profile, copyOk, result)
            /\ probe' = ValidateCall(profile, FALSE, result)
            /\ IF ~result.ok
               THEN /\ lastReq' = Response("switch", profile, 400, "invalid", 1,
                                           ValidateWrites(profile, copyOk, result))
                    /\ UNCHANGED <<activeFile, reloadFile>>
               ELSE /\ activeFile' = Pointer(Str(profile), "api")
                    /\ triggerReload("profile-switch", profile)
                    /\ lastReq' = Response("switch", profile, 200,
                                           IF restartOk THEN "ok" ELSE "restart-failed", 0,
                                           ValidateWrites(profile, copyOk, result)
                                               \o <<W("active", profile), W("reload", profile),
                                                    Restart>>)
    /\ UNCHANGED <<profileDocs, tgDocs, filterDocs, legacyActiveFile>>
    /\ UNCHANGED <<env, awaiting>>

PostSwitch(profile, restartOk, copyOk) ==
    PostSwitchOf(profile, restartOk, copyOk, ValidateResultOf(profile, FALSE, copyOk))

\* GET /api/talkgroups/:profile
GetTalkgroups(profile) ==
    /\ isSafeProfileName(profile)
    /\ lastReq' = Response("get-talkgroups", profile, 200, "ok", 0, <<>>)
    /\ probe' = None
    /\ UNCHANGED <<profileDocs, tgDocs, tagsFiles, trunkFiles, filterDocs, reloadFile,
                   activeFile, legacyActiveFile, dirFiles>>
    /\ UNCHANGED <<env, awaiting>>

ProfileOps ==
    SaveOps \cup PreviewOps \cup {"validate-profile", "tags-init", "switch", "get-talkgroups"}


MaxTrunkLines == 3

MaxWriteSites == 1

MaxWriteEntries == 1

\* lines an operator's trunk file may hold: rows of two and of three
\* fields, a row whose last field is left open, a comment
TrunkLinePool ==
    { <<"\"", "a", "\"", "\t", "\"", "b", "\"">>,
      <<"\"", "a", "\"", "\t", "\"", "b", "\"", "\t", "\"", "c", "\"">>,
      <<"\"", "a", "\"", "\t", "\"", "b">>,
      <<"#", " ", "c">> \o <<"\r">> }

\* trunk files with rows that name tags files (one that is missing, one in
\* another case, one that cannot be created, an absolute path), a row that
\* ends in a tab, rows without quotes and with text after a closing quote,
\* a one-field row
ReferenceFilePool ==
    { << <<"\"", "a", "\"", "\t", "\"", "b", "\"">>, <<"\"", "x", "\"", "\t", "\"", "B", ".", "t", "a", "g", "s", ".", "t", "s", "v", "\"">> >>,
      << <<"\"", "a", "\"", "\t", "\"", "b", "\"">>, <<"\"", "x", "\"", "\t", "\"", "a", "z", ".", "t", "a", "g", "s", ".", "t", "s", "v", "\"">> >>,
      << <<"\"", "a", "\"", "\t", "\"", "b", "\"">>, <<"\"", "x", "\"", "\t", "\"", "b", " ", "c", ".", "t", "a", "g", "s", ".", "t", "s", "v", "\"">> >>,
      << <<"\"", "B", ".", "t", "a", "g", "s", ".", "t", "s", "v", "\"", "\t", "\"", "b", " ", "c", ".", "t", "a", "g", "s", ".", "t", "s", "v", "\"">> >>,
      << <<"\"", "a", "\"", "\t", "\"", "b", "\"">>, <<"\"", "x", "\"", "\t", "\"", "/", "r", ".", "t", "a", "g", "s", ".", "t", "s", "v", "\"">> >>,
      << <<"\"", "a", "\"", "\t", "\"", "b", "\"">>, <<"\"", "a", "\"", "\t", "\"", "b", "\"", "\t">> >>,
      << <<"\"", "a", "\"", "\t", "\"", "b", "\"">>, <<"a", "\t", "b">> >>,
      << <<"\"", "a", "\"", "x">> >>,
      << <<"\"", "a", "\"">> >> }

TrunkFilePool ==
    {TextFile(ls) : ls \in SeqsUpTo(TrunkLinePool, MaxTrunkLines) \cup ReferenceFilePool}

\* the other files of PROFILES_DIR: none, a legacy <profile>.tsv, a tags
\* file of another name
DirFilesPool(profile) ==
    { NoDirFiles,
      [n \in {LegacyTrunkName(profile)} |-> TextFile(<< <<"\"", "a", "\"", "\t", "\"", "b", "\"">> >>)],
      [n \in {<<"B", ".", "t", "a", "g", "s", ".", "t", "s", "v">>} |-> EmptyTagsFile] }

\* sites handed to writeTrunkTsv
WriteSitePool ==
    { JsonSite,
      [JsonSite EXCEPT !.name = Str(<<"a", "\"", "b">>), !.controlChannels = Undef],
      [JsonSite EXCEPT !.name = Str(<<"a", "\n", "b">>)] }

WriteEntryPool == {PolicyEntry(1201, TRUE, "allow"), PolicyEntry(1299, TRUE, "deny")}

\* req.query.createMissingTags
QueryFlags == {Undef, Str(<<"1">>), Str(<<"0">>)}

\* req.body.tagFile
TagFileBodies == {Undef, Str(<<" ", "B", ".", "t", "a", "g", "s", ".", "t", "s", "v">>), Str(<<"b", " ", "c", ".", "t", "a", "g", "s", ".", "t", "s", "v">>)}

GuardAnswers == {200, 401}

ValidateInit ==
    /\ profileDocs = NoFiles
    /\ tgDocs = NoFiles
    /\ tagsFiles \in [Profiles -> {None, EmptyTagsFile}]
    /\ trunkFiles \in [Profiles -> {None} \cup TrunkFilePool]
    /\ \E profile \in Profiles : dirFiles \in DirFilesPool(profile)
    /\ filterDocs = NoFiles
    /\ reloadFile = None
    /\ activeFile = None
    /\ legacyActiveFile = None
    /\ env = DefaultEnv
    /\ awaiting = <<>>
    /\ lastReq = None
    /\ probe = None

ValidateNext ==
    \/ \E profile \in Profiles, sites \in SeqsUpTo(WriteSitePool, MaxWriteSites),
          system \in {NoSystem, JsonSystem} : CallWriteTrunkTsv(profile, sites, system)
    \/ \E profile \in Profiles, entries \in SeqsUpTo(WriteEntryPool, MaxWriteEntries) :
          CallWriteTagsTsv(profile, entries)
    \/ \E profile \in RequestNames, query \in QueryFlags, copyOk \in BOOLEAN :
          GetValidateProfile(profile, query, copyOk)
    \/ \E profile \in RequestNames, guard \in GuardAnswers, tagFile \in TagFileBodies :
          PostTagsInit(profile, guard, tagFile)
    \/ \E op \in {"validate-profile", "tags-init"}, profile \in RequestNames :
          RejectName(op, profile)

ValidateSpec == ValidateInit /\ [][ValidateNext]_vars

----------------------------------------------------------------------------
(* The requests that create tags files, on trunk files that name one       *)

\* a tags file that holds a talkgroup
FilledTagsFile == TextFile(TagsLines(<<PolicyEntry(1201, TRUE, "allow")>>))

\* tags-file names a trunk file refers to: in upper case, absolute, inside
\* a directory, one that may exist, one with a blank
TagRefPool ==
    { <<"B", ".", "T", "A", "G", "S", ".", "T", "S", "V">>, <<"/", "r", ".", "t", "a", "g", "s", ".", "t", "s", "v">>, <<"d", "/", "r", ".", "t", "a", "g", "s", ".", "t", "s", "v">>, <<"B", ".", "t", "a", "g", "s", ".", "t", "s", "v">>, <<"b", " ", "c", ".", "t", "a", "g", "s", ".", "t", "s", "v">> }

\* a two-row trunk file whose second row names ref
TagRefTrunk(ref) ==
    TextFile(<< join(<<quoteTsv(Str(<<"a">>)), quoteTsv(Str(<<"b">>))>>, <<"\t">>),
                join(<<quoteTsv(Str(<<"x">>)), quoteTsv(Str(ref))>>, <<"\t">>) >>)

\* req.body.tagFile
TagInitBodies == {Undef, Str(<<"B", ".", "T", "A", "G", "S", ".", "T", "S", "V">>), Str(<<".", ".", "/", "x", ".", "t", "a", "g", "s", ".", "t", "s", "v">>), Str(<<"B", ".", "t", "a", "g", "s", ".", "t", "s", "v">>)}

TagFileInit ==
    /\ profileDocs = NoFiles
    /\ tgDocs = NoFiles
    /\ tagsFiles \in [Profiles -> {None, FilledTagsFile}]
    /\ trunkFiles \in [Profiles -> {None} \cup {TagRefTrunk(ref) : ref \in TagRefPool}]
    /\ dirFiles \in {NoDirFiles, [n \in {<<"B", ".", "t", "a", "g", "s", ".", "t", "s", "v">>} |-> FilledTagsFile]}
    /\ filterDocs = NoFiles
    /\ reloadFile = None
    /\ activeFile = None
    /\ legacyActiveFile = None
    /\ env = DefaultEnv
    /\ awaiting = <<>>
    /\ lastReq = None
    /\ probe = None

TagFileNext ==
    \/ \E profile \in RequestNames, query \in QueryFlags :
          GetValidateProfile(profile, query, TRUE)
    \/ \E profile \in RequestNames, guard \in GuardAnswers, tagFile \in TagInitBodies :
          PostTagsInit(profile, guard, tagFile)
    \/ \E op \in {"validate-profile", "tags-init"}, profile \in RequestNames :
          RejectName(op, profile)

TagFileSpec == TagFileInit /\ [][TagFileNext]_vars

----------------------------------------------------------------------------
(* The active-profile pointer: start-up migration, bootstrap and switch    *)

\* a file whose text JSON.parse rejects
Unparsable == [unparsable |-> TRUE]

\* readJson(filePath, fallback); readOk is whether fs.readFileSync succeeds
readJson(file, fallback, readOk) ==
    IF file = None \/ file = Unparsable \/ ~readOk THEN fallback ELSE file

\* legacy && isSafeProfileName(legacy.profile)
PointsToSafeName(legacy) ==
    /\ "profile" \in DOMAIN legacy
    /\ legacy.profile.t = "string"
    /\ isSafeProfileName(legacy.profile.s)

\* the steps of migrateLegacyActiveProfile that the file system may fail
MigrationFailures == {"none", "read", "write", "unlink"}

\* the two pointer files after migrateLegacyActiveProfile when the step
\* fail throws (every throw is caught inside the function)
MigrationOutcome(fail) ==
    IF activeFile # None \/ legacyActiveFile = None
    THEN [active |-> activeFile, legacy |-> legacyActiveFile]
    ELSE IF ~PointsToSafeName(readJson(legacyActiveFile, Null, fail # "read"))
    THEN [active |-> activeFile, legacy |-> legacyActiveFile]
    ELSE IF fail = "write"
    THEN [active |-> activeFile, legacy |-> legacyActiveFile]
    ELSE IF fail = "unlink"
    THEN [active |-> legacyActiveFile, legacy |-> legacyActiveFile]
    ELSE [active |-> legacyActiveFile, legacy |-> None]

\* listProfiles(): the names of the profile documents
listProfiles == {p \in DOMAIN profileDocs : profileDocs[p] # None /\ isSafeProfileName(p)}

\* the start of the process: migrateLegacyActiveProfile(), then the
\* bootstrap pointer to names[0] (the first name readdir lists) when no
\* canonical file exists
Startup(fail) ==
    /\ legacyActiveFile' = MigrationOutcome(fail).legacy
    /\ \/ /\ MigrationOutcome(fail).active # None
          /\ activeFile' = MigrationOutcome(fail).active
       \/ /\ MigrationOutcome(fail).active = None
          /\ listProfiles = {}
          /\ activeFile' = None
       \/ /\ MigrationOutcome(fail).active = None
          /\ \E name \in listProfiles : activeFile' = Pointer(Str(name), "bootstrap")
    /\ probe' = [fn |-> "migrateLegacyActiveProfile", in |-> [fail |-> fail],
                 out |-> MigrationOutcome(fail)]
    /\ lastReq' = None
    /\ UNCHANGED <<profileDocs, tgDocs, tagsFiles, trunkFiles, filterDocs, reloadFile, dirFiles>>
    /\ UNCHANGED <<env, awaiting>>

\* what active_profile.json may hold
LegacyPointerPool ==
    { None, Unparsable, Null,
      Pointer(Str(<<"A", "Z">>), "api"),
      Pointer(Str(<<"Q">>), "api"),
      Pointer(Str(BadName), "api"),
      Pointer(Undef, "api") }

PointerInit ==
    /\ profileDocs \in [Profiles -> {None, EmptyProfileDoc}]
    /\ tgDocs = NoFiles
    /\ tagsFiles \in [Profiles -> {None, EmptyTagsFile}]
    /\ trunkFiles \in [Profiles -> {None, TextFile(<< <<"\"", "a", "\"", "\t", "\"", "b", "\"">> >>),
                                    TextFile(<< <<"\"", "a", "\"", "\t", "\"", "b", "\"">>, <<"\"", "a", "\"", "\t", "\"", "b", "\"", "\t", "\"", "c", "\"">> >>)}]
    /\ dirFiles = NoDirFiles
    /\ filterDocs = NoFiles
    /\ reloadFile = None
    /\ activeFile \in {None, Pointer(Str(<<"A", "Z">>), "bootstrap")}
    /\ legacyActiveFile \in LegacyPointerPool
    /\ env = DefaultEnv
    /\ awaiting = <<>>
    /\ lastReq = None
    /\ probe = None

PointerNext ==
    \/ \E fail \in MigrationFailures : Startup(fail)
    \/ \E profile \in RequestNames, restartOk \in BOOLEAN, copyOk \in BOOLEAN :
          PostSwitch(profile, restartOk, copyOk)
    \/ \E profile \in RequestNames : GetTalkgroups(profile)
    \/ \E op \in ProfileOps, profile \in RequestNames : RejectName(op, profile)

PointerSpec == PointerInit /\ [][PointerNext]_vars

----------------------------------------------------------------------------
(* The control layer: guardControl and the requests that start, stop or    *)
(* restart the decoder container                                           *)

\* /^172\.(1[6-9]|2[0-9]|3[0-1])\./
IsPrivate172(ip) ==
    /\ Len(ip) >= 7 /\ SubSeq(ip, 1, 4) = <<"1", "7", "2", ".">> /\ ip[7] = "."
    /\ \/ ip[5] = "1" /\ ip[6] \in {"6", "7", "8", "9"}
       \/ ip[5] = "2" /\ IsDigit(ip[6])
       \/ ip[5] = "3" /\ ip[6] \in {"0", "1"}

isPrivateIp(ip) ==
    IF ip = <<>> THEN FALSE
    ELSE \/ ip = <<"1", "2", "7", ".", "0", ".", "0", ".", "1">> \/ ip = <<":", ":", "1">>
         \/ startsWith(ip, <<"1", "0", ".">>)
         \/ startsWith(ip, <<"1", "9", "2", ".", "1", "6", "8", ".">>)
         \/ IsPrivate172(ip)
         \/ startsWith(ip, <<"f", "c">>) \/ startsWith(ip, <<"f", "d">>)

\* a guard that lets any token through
guardControlAnyToken(token, ip) ==
    IF env.ADMIN_TOKEN = <<>> THEN 503
    ELSE IF env.CONTROL_PRIVATE_ONLY /\ ~isPrivateIp(ip) THEN 403
    ELSE 200

\* guardControl: the status it answers with, 200 when it calls next();
\* token is extractAuthToken(req), ip is extractClientIp(req)
guardControl(token, ip) ==
    IF env.ADMIN_TOKEN = <<>> THEN 503
    ELSE IF token # env.ADMIN_TOKEN THEN 401
    ELSE IF env.CONTROL_PRIVATE_ONLY /\ ~isPrivateIp(ip) THEN 403
    ELSE 200

\* no profile: what activeProfile() returns for an unusable pointer
NoProfile == <<>>

\* activeProfile()
activeProfile ==
    IF PointsToSafeName(readJson(activeFile, Null, TRUE))
    THEN readJson(activeFile, Null, TRUE).profile.s
    ELSE NoProfile

\* a decoder command a request issued through dockerAction, for its log
Docker(action) == [file |-> "decoder-" \o action, profile |-> <<>>]

\* what a request presents to guardControl
Auth(token, ip) == [token |-> token, ip |-> ip]

\* the answer of a request that went through guardControl
Guarded(response, token, ip) ==
    [f \in DOMAIN response \cup {"auth"} |->
        IF f = "auth" THEN Auth(token, ip) ELSE response[f]]

\* the actions fallbackCmd knows, and the three that go to dockerAction
ControlActions ==
    {"start-op25", "restart-op25", "stop-op25", "load-alsa-loopback", "usb-sdr-check",
     "restart-streamer", "restart-icecast", "restart-backend"}

DockerActionName(action) ==
    IF action = "start-op25" THEN "start" ELSE IF action = "stop-op25" THEN "stop" ELSE "restart"

\* the validation gate of start-op25 / restart-op25 and of POST
\* /api/op25/restart: activeProfile(), then validateProfileFiles(profile);
\* after it the rest of the handler runs when the gate passed
Gate(op, token, ip, copyOk, result, onward) ==
    IF activeProfile = NoProfile
    THEN /\ lastReq' = Guarded(Response(op, NoProfile, 400, "no-active-profile", 1, <<>>),
                               token, ip)
         /\ probe' = None
         /\ UNCHANGED <<trunkFiles, tagsFiles, dirFiles>>
    ELSE /\ ValidateEffects(activeProfile, copyOk, result)
         /\ probe' = ValidateCall(activeProfile, FALSE, result)
         /\ lastReq' =
               Guarded(IF ~result.ok
                       THEN Response(op, activeProfile, 400, "invalid", 1,
                                     ValidateWrites(activeProfile, copyOk, result))
                       ELSE Response(op, activeProfile, onward.status, onward.outcome, 0,
                                     ValidateWrites(activeProfile, copyOk, result)
                                         \o <<onward.command>>),
                       token, ip)

GateResult(copyOk) ==
    IF activeProfile = NoProfile THEN None ELSE ValidateResultOf(activeProfile, FALSE, copyOk)

\* a control action that asks for no validation and runs its command anyway
PostControlActionUngated(token, ip, action, copyOk, dockerOk, helperOk) ==
    /\ IF guardControl(token, ip) # 200
       THEN lastReq' = Guarded(Response("control-action", NoProfile, guardControl(token, ip),
                                        "guard", 1, <<>>), token, ip)
       ELSE lastReq' = Guarded(Response("control-action", NoProfile,
                                        IF dockerOk THEN 200 ELSE 500, action, 0,
                                        IF action \in {"start-op25", "restart-op25", "stop-op25"}
                                        THEN <<Docker(DockerActionName(action))>> ELSE <<>>),
                               token, ip)
    /\ probe' = None
    /\ UNCHANGED <<profileDocs, tgDocs, tagsFiles, trunkFiles, filterDocs, reloadFile,
                   activeFile, legacyActiveFile, dirFiles, env, awaiting>>

\* POST /api/control/action behind guardControl; action is
\* String(req.body?.action || '').trim(), dockerOk what dockerAction
\* reports, helperOk what callHostHelper reports
PostControlAction(token, ip, action, copyOk, dockerOk, helperOk) ==
    /\ IF guardControl(token, ip) # 200
       THEN /\ lastReq' = Guarded(Response("control-action", NoProfile, guardControl(token, ip),
                                           "guard", 1, <<>>), token, ip)
            /\ probe' = None
            /\ UNCHANGED <<trunkFiles, tagsFiles, dirFiles>>
       ELSE IF action \notin ControlActions
       THEN /\ lastReq' = Guarded(Response("control-action", NoProfile, 400, "unsupported", 1,
                                           <<>>), token, ip)
            /\ probe' = None
            /\ UNCHANGED <<trunkFiles, tagsFiles, dirFiles>>
       ELSE IF action \in {"start-op25", "restart-op25"}
       THEN Gate("control-action", token, ip, copyOk, GateResult(copyOk),
                 [status |-> IF dockerOk THEN 200 ELSE 500, outcome |-> action,
                  command |-> Docker(DockerActionName(action))])
       ELSE IF action = "stop-op25"
       THEN /\ lastReq' = Guarded(Response("control-action", NoProfile,
                                           IF dockerOk THEN 200 ELSE 500, action, 0,
                                           <<Docker("stop")>>), token, ip)
            /\ probe' = None
            /\ UNCHANGED <<trunkFiles, tagsFiles, dirFiles>>
       ELSE /\ lastReq' = Guarded(Response("control-action", NoProfile,
                                           IF helperOk THEN 200 ELSE 503, action, 0, <<>>),
                                  token, ip)
            /\ probe' = None
            /\ UNCHANGED <<trunkFiles, tagsFiles, dirFiles>>
    /\ UNCHANGED <<profileDocs, tgDocs, filterDocs, reloadFile, activeFile, legacyActiveFile,
                   env, awaiting>>

\* POST /api/op25/restart behind guardControl (the answer is 200 whatever
\* the restart reports; ok is restart.ok)
PostOp25Restart(token, ip, copyOk, dockerOk) ==
    /\ IF guardControl(token, ip) # 200
       THEN /\ lastReq' = Guarded(Response("op25-restart", NoProfile, guardControl(token, ip),
                                           "guard", 1, <<>>), token, ip)
            /\ probe' = None
            /\ UNCHANGED <<trunkFiles, tagsFiles, dirFiles>>
       ELSE Gate("op25-restart", token, ip, copyOk, GateResult(copyOk),
                 [status |-> 200, outcome |-> IF dockerOk THEN "ok" ELSE "restart-failed",
                  command |-> Docker("restart")])
    /\ UNCHANGED <<profileDocs, tgDocs, filterDocs, reloadFile, activeFile, legacyActiveFile,
                   env, awaiting>>

\* what the environment may hold: no ADMIN_TOKEN, a token with
\* CONTROL_PRIVATE_ONLY on (the default) or switched off ('0')
EnvPool ==
    { [ADMIN_TOKEN |-> <<>>, CONTROL_PRIVATE_ONLY |-> TRUE],
      DefaultEnv,
      [ADMIN_TOKEN |-> <<"s", "3">>, CONTROL_PRIVATE_ONLY |-> FALSE] }

\* tokens and client addresses of the requests
TokenPool == {<<>>, <<"s", "3">>}

IpPool == {<<"1", "0", ".", "0", ".", "0", ".", "7">>, <<"1", "7", "2", ".", "3", "2", ".", "0", ".", "1">>}

ControlActionPool == {"start-op25", "restart-op25", "stop-op25", "restart-streamer", ""}

OneLineTrunk == TextFile(<< <<"\"", "a", "\"", "\t", "\"", "b", "\"">> >>)

MismatchTrunk == TextFile(<< <<"\"", "a", "\"", "\t", "\"", "b", "\"">>, <<"\"", "a", "\"", "\t", "\"", "b", "\"", "\t", "\"", "c", "\"">> >>)

\* the talkgroup imports that run between the control requests
MaxControlRows == 1

ControlCsvBodies ==
    {Str(CsvText(HeadersFull, rs)) :
        rs \in SeqsUpTo({<< <<"5">>, <<"A">>, <<"D">>, E, E, E, E >>}, MaxControlRows)}

\* no legacy <profile>.tsv lies in the profile directory here, so
\* fs.copyFileSync is never called (copyOk is TRUE in every request)
ControlInit ==
    /\ profileDocs \in [Profiles -> {None, EmptyProfileDoc}]
    /\ tgDocs = NoFiles
    /\ tagsFiles = NoFiles
    /\ trunkFiles \in [Profiles -> {None, OneLineTrunk, MismatchTrunk}]
    /\ dirFiles = NoDirFiles
    /\ filterDocs = NoFiles
    /\ reloadFile = None
    /\ activeFile = None
    /\ legacyActiveFile \in {None, Pointer(Str(<<"A", "Z">>), "api")}
    /\ env \in EnvPool
    /\ awaiting = <<>>
    /\ lastReq = None
    /\ probe = None

ControlNext ==
    \/ \E fail \in MigrationFailures : Startup(fail)
    \/ \E profile \in RequestNames, restartOk \in BOOLEAN :
          PostSwitch(profile, restartOk, TRUE)
    \/ \E token \in TokenPool, ip \in IpPool, action \in ControlActionPool,
          commandOk \in BOOLEAN :
          PostControlAction(token, ip, action, TRUE, commandOk, commandOk)
    \/ \E token \in TokenPool, ip \in IpPool, dockerOk \in BOOLEAN :
          PostOp25Restart(token, ip, TRUE, dockerOk)
    \/ \E profile \in RequestNames, query \in QueryFlags :
          GetValidateProfile(profile, query, TRUE)
    \/ \E profile \in RequestNames : PutTalkgroups(profile, <<>>)
    \/ \E profile \in RequestNames, csv \in ControlCsvBodies :
          ImportTalkgroupsPreview(profile, csv)
    \/ \E profile \in RequestNames, csv \in ControlCsvBodies :
          ImportTalkgroupsSave(profile, csv)
    \/ \E op \in ProfileOps, profile \in RequestNames : RejectName(op, profile)

ControlSpec == ControlInit /\ [][ControlNext]_vars

----------------------------------------------------------------------------
(* The switch handler between its awaits: requests that interleave while   *)
(* the decoder restarts                                                    *)

\* most requests the event loop holds suspended at an await
MaxAwaiting == 2

\* a switch request suspended at `await dockerAction(...)` (at = "restart")
\* or at `await dockerLogsTail(...)` (at = "logs", restartOk known)
Suspended(profile, at, restartOk, writes) ==
    [op |-> "switch", profile |-> profile, at |-> at, restartOk |-> restartOk, writes |-> writes]

RemoveAt(s, i) == SubSeq(s, 1, i - 1) \o SubSeq(s, i + 1, Len(s))

\* POST /api/profiles/switch from its first statement to the first await:
\* the checks, the two writes and the call of dockerAction('restart'),
\* which spawns the command before the handler is suspended
PostSwitchBeginOf(profile, copyOk, result) ==
    /\ isSafeProfileName(profile)
    /\ IF profileDocs[profile] = None
       THEN /\ lastReq' = Response("switch", profile, 404, "not-found", 1, <<>>)
            /\ probe' = None
            /\ UNCHANGED <<trunkFiles, tagsFiles, dirFiles, activeFile, reloadFile, awaiting>>
       ELSE /\ ValidateEffects(profile, copyOk, result)
            /\ probe' = ValidateCall(profile, FALSE, result)
            /\ IF ~result.ok
               THEN /\ lastReq' = Response("switch", profile, 400, "invalid", 1,
                                           ValidateWrites(profile, copyOk, result))
                    /\ UNCHANGED <<activeFile, reloadFile, awaiting>>
               ELSE /\ Len(awaiting) < MaxAwaiting
                    /\ activeFile' = Pointer(Str(profile), "api")
                    /\ triggerReload("profile-switch", profile)
                    /\ awaiting' = Append(awaiting,
                                          Suspended(profile, "restart", FALSE,
                                                    ValidateWrites(profile, copyOk, result)
                                                        \o <<W("active", profile),
                                                             W("reload", profile), Restart>>))
                    /\ lastReq' = None
    /\ UNCHANGED <<profileDocs, tgDocs, filterDocs, legacyActiveFile, env>>

PostSwitchBegin(profile, copyOk) ==
    PostSwitchBeginOf(profile, copyOk, ValidateResultOf(profile, FALSE, copyOk))

\* a handler that writes the pointer again when its restart has completed
PostSwitchRestartedRewriting(i, restartOk) ==
    /\ i \in DOMAIN awaiting /\ awaiting[i].at = "restart"
    /\ awaiting' = [awaiting EXCEPT ![i].at = "logs", ![i].restartOk = restartOk]
    /\ activeFile' = Pointer(Str(awaiting[i].profile), "api")
    /\ lastReq' = None
    /\ probe' = None
    /\ UNCHANGED <<profileDocs, tgDocs, tagsFiles, trunkFiles, filterDocs, reloadFile,
                   legacyActiveFile, dirFiles, env>>

\* the restart of request i completes with restartOk: the handler resumes
\* and calls dockerLogsTail, where it is suspended again
PostSwitchRestarted(i, restartOk) ==
    /\ i \in DOMAIN awaiting /\ awaiting[i].at = "restart"
    /\ awaiting' = [awaiting EXCEPT ![i].at = "logs", ![i].restartOk = restartOk]
    /\ lastReq' = None
    /\ probe' = None
    /\ UNCHANGED <<profileDocs, tgDocs, tagsFiles, trunkFiles, filterDocs, reloadFile,
                   activeFile, legacyActiveFile, dirFiles, env>>

\* the log tail of request i arrives: res.json({ok: restart.ok, profile, ...})
PostSwitchRespond(i) ==
    /\ i \in DOMAIN awaiting /\ awaiting[i].at = "logs"
    /\ awaiting' = RemoveAt(awaiting, i)
    /\ lastReq' = Response("switch", awaiting[i].profile, 200,
                           IF awaiting[i].restartOk THEN "ok" ELSE "restart-failed", 0,
                           awaiting[i].writes)
    /\ probe' = None
    /\ UNCHANGED <<profileDocs, tgDocs, tagsFiles, trunkFiles, filterDocs, reloadFile,
                   activeFile, legacyActiveFile, dirFiles, env>>

\* two profiles to switch between
SwitchProfiles == {<<"A", "Z">>, <<"B">>}

SwitchInit ==
    /\ profileDocs \in [SwitchProfiles -> {None, EmptyProfileDoc}]
    /\ tgDocs = [p \in SwitchProfiles |-> None]
    /\ tagsFiles = [p \in SwitchProfiles |-> EmptyTagsFile]
    /\ trunkFiles \in [SwitchProfiles -> {OneLineTrunk, MismatchTrunk}]
    /\ dirFiles = NoDirFiles
    /\ filterDocs = [p \in SwitchProfiles |-> None]
    /\ reloadFile = None
    /\ activeFile \in {None} \cup {Pointer(Str(p), "bootstrap") : p \in SwitchProfiles}
    /\ legacyActiveFile = None
    /\ env = DefaultEnv
    /\ awaiting = <<>>
    /\ lastReq = None
    /\ probe = None

SwitchNext ==
    \/ \E profile \in SwitchProfiles : PostSwitchBegin(profile, TRUE)
    \/ \E i \in 1..MaxAwaiting, restartOk \in BOOLEAN : PostSwitchRestarted(i, restartOk)
    \/ \E i \in 1..MaxAwaiting : PostSwitchRespond(i)
    \/ RejectName("switch", BadName)

SwitchSpec == SwitchInit /\ [][SwitchNext]_vars

----------------------------------------------------------------------------
(* normalizeSitesCsv on one site row whose frequency cells are drawn from  *)
(* a bounded pool of tokens                                                *)

MaxFreqTokens == 2

\* frequency tokens as typed
FreqTokenPool ==
    { <<"7", "7", "1", ".", "1", "0", "6", "2", "5", "0">>, <<"4", "6", "0">>, <<"0">>, <<"-", "5">>, <<"x">>, <<"0", ".", "0", "0", "0", "0", "0", "1">> }

\* the pasted text: the header line and one row whose control_freq and
\* alt_freqs cells hold the tokens, separated by ';'
FreqText(control, alt) ==
    Str(CsvText(SitesHeaders,
                << << <<"M", "e", "s", "a">>, join(control, <<";">>), join(alt, <<";">>), E, E, E, E >> >>))

FreqInit ==
    /\ FreshDisk
    /\ probe \in
          {[fn |-> "normalizeSitesCsv", in |-> [control |-> c, alt |-> a, text |-> FreqText(c, a)],
            done |-> FALSE, out |-> None] :
              c \in SeqsUpTo(FreqTokenPool, MaxFreqTokens),
              a \in SeqsUpTo(FreqTokenPool, MaxFreqTokens - 1)}

CallNormalizeSitesCsv ==
    /\ probe.fn = "normalizeSitesCsv" /\ ~probe.done
    /\ probe' = [probe EXCEPT !.done = TRUE, !.out = normalizeSitesCsv(probe.in.text)]
    /\ UNCHANGED disk

FreqNext == CallNormalizeSitesCsv

FreqSpec == FreqInit /\ [][FreqNext]_vars

----------------------------------------------------------------------------
(* parseCsv and the two normalizers on the same table typed with commas    *)
(* and with tabs                                                           *)

MaxDelimRows == 2

\* the header line and one line per row, the cells joined by sep
SepText(headers, rows, sep) ==
    join(<<join(headers, <<sep>>)>> \o [k \in DOMAIN rows |-> join(rows[k], <<sep>>)],
         <<"\n">>)

DelimTalkgroupRows ==
    { << <<"5">>, <<"A">>, <<"D">> >>,
      << <<"7">>, <<"B">>, <<"D", "E">> >>,
      << <<"x">>, <<"A">>, <<"D">> >> }

DelimSiteRows ==
    { << <<"M", "e", "s", "a">>, <<"7", "7", "1", ".", "1", "0", "6", "2", "5", "0">>, <<"7", "7", "0", ".", "5">> >>,
      << <<"M", "e", "s", "a">>, <<"x">>, <<>> >> }

\* a table and the way it is typed
DelimInput(headers, rows, sep) ==
    [headers |-> headers, rows |-> rows, sep |-> sep,
     text |-> Str(SepText(headers, rows, sep)),
     comma |-> Str(SepText(headers, rows, ","))]

DelimInit ==
    /\ FreshDisk
    /\ probe \in
          {[fn |-> f, in |-> DelimInput(HeadersShort, rs, sep), done |-> FALSE, out |-> None] :
              f \in {"parseCsv", "normalizeTalkgroupsCsv"},
              rs \in SeqsUpTo(DelimTalkgroupRows, MaxDelimRows), sep \in {",", "\t"}}
          \cup
          {[fn |-> f, in |-> DelimInput(<<K_site_name, K_control_freq, K_alt_freqs>>, rs, sep),
            done |-> FALSE, out |-> None] :
              f \in {"parseCsv", "normalizeSitesCsv"},
              rs \in SeqsUpTo(DelimSiteRows, MaxDelimRows), sep \in {",", "\t"}}

CallParseCsv ==
    /\ probe.fn = "parseCsv" /\ ~probe.done
    /\ probe' = [probe EXCEPT !.done = TRUE, !.out = parseCsv(probe.in.text)]
    /\ UNCHANGED disk

DelimNext == CallParseCsv \/ CallNormalizeTalkgroupsCsv \/ CallNormalizeSitesCsv

DelimSpec == DelimInit /\ [][DelimNext]_vars

----------------------------------------------------------------------------
(* normalizeCommandForTrunk applied to a stored command, and again to its  *)
(* result as the next sites save does                                      *)

MaxCommandTokens == 2

\* valid profile names, two of them ends of the word 'trunk'
CommandProfiles == { <<"A", "Z">>, <<"t", "r", "u", "n", "k">>, <<"k">> }

ProfilesDirSlash == <<"{", "P", "R", "O", "F", "I", "L", "E", "S", "_", "D", "I", "R", "}", "/">>

\* tokens of a stored command: the old template, the bare file name, the
\* rewritten template, an option, a file of another profile whose name ends
\* in this profile's name
CommandTokens(profile) ==
    { ProfilesDirSlash \o profile \o <<".", "t", "s", "v">>,
      profile \o <<".", "t", "s", "v">>,
      ProfilesDirSlash \o profile \o <<".", "t", "r", "u", "n", "k", ".", "t", "s", "v">>,
      <<"-", "T">>,
      <<"/", "d", "/", "B">> \o profile \o <<".", "t", "s", "v">> }

CommandInit ==
    /\ FreshDisk
    /\ probe \in
          {[fn |-> "normalizeCommandForTrunk", in |-> [profile |-> p, command |-> c],
            calls |-> 0, out |-> None, again |-> None] :
              p \in CommandProfiles, c \in UNION {SeqsUpTo(CommandTokens(q), MaxCommandTokens) :
                                                     q \in CommandProfiles}}

\* the first sites save of a profile with this stored command
CallNormalizeCommand ==
    /\ probe.fn = "normalizeCommandForTrunk" /\ probe.calls = 0
    /\ probe' = [probe EXCEPT !.calls = 1,
                              !.out = normalizeCommandForTrunk(probe.in.profile, probe.in.command)]
    /\ UNCHANGED disk

\* the next sites save, on the command the first one stored
CallNormalizeCommandAgain ==
    /\ probe.fn = "normalizeCommandForTrunk" /\ probe.calls = 1
    /\ probe' = [probe EXCEPT !.calls = 2,
                              !.again = normalizeCommandForTrunk(probe.in.profile, probe.out)]
    /\ UNCHANGED disk

CommandNext == CallNormalizeCommand \/ CallNormalizeCommandAgain

CommandSpec == CommandInit /\ [][CommandNext]_vars

----------------------------------------------------------------------------
(* The two ways sites are saved: the sites CSV save and the JSON-file      *)
(* import                                                                  *)

MaxJsonSites == 1

\* site objects of an import file: complete, without a name, with an empty
\* list of control channels
JsonSitePool ==
    { JsonSite,
      [JsonSite EXCEPT !.name = Undef],
      [JsonSite EXCEPT !.controlChannels = Arr(<<>>)] }

\* what <profile>.import.json may hold here
SiteImportFiles ==
    { [kind |-> "document",
       raw |-> JsonRaw([JsonSystem EXCEPT !.sites = sites], <<>>, entries)] :
          sites \in SeqsUpTo(JsonSitePool, MaxJsonSites),
          entries \in { <<>>, << Obj(Num(5), Str(<<"A">>), Str(<<"D">>), Undef, Undef) >> } }

SiteSaveInit ==
    /\ FreshDisk
    /\ probe = None

SiteSaveNext ==
    \/ \E profile \in RequestNames, csv \in SitesCsvBodies : ImportSitesSave(profile, csv)
    \/ \E profile \in RequestNames, csv \in SitesCsvBodies : ImportSitesPreview(profile, csv)
    \/ \E profile \in RequestNames, file \in SiteImportFiles :
          ImportProfileFromJsonFile(profile, file)
    \/ \E op \in {"sites-save", "sites-preview", "json-import"}, profile \in RequestNames :
          RejectName(op, profile)

SiteSaveSpec == SiteSaveInit /\ [][SiteSaveNext]_vars

----------------------------------------------------------------------------
(* Properties of the writers and the validator                             *)

\* the step is a call of validateProfileFiles on profile
Validated(profile) ==
    /\ probe' # None
    /\ probe'.fn = "validateProfileFiles"
    /\ probe'.in.profile = profile

WriterSites == SeqsUpTo(WriteSitePool, MaxWriteSites)

WriterSystems == {NoSystem, JsonSystem}

\* the files the writers write, tabulated over the writers' inputs
WrittenTrunk ==
    [a \in Profiles \X WriterSites \X WriterSystems |->
        TextFile(TrunkLines(a[1], a[2], a[3]))]

WriterEntries == SeqsUpTo(WriteEntryPool, MaxWriteEntries)

WrittenTags == [entries \in WriterEntries |-> TextFile(TagsLines(entries))]

\* the step before was a call of fn
Called(fn) == probe # None /\ probe.fn = fn

\* C12: validateProfileFiles on a profile right after writeTrunkTsv wrote
\* its trunk file returns ok = true, parsedRows equal to the number of sites
\* written, and the profile's own tags file name among the referenced tag
\* files.
C12_RoundTrip ==
    [][Called("writeTrunkTsv") /\ Validated(probe.in.profile)
          => /\ probe'.out.ok
             /\ probe'.out.details.parsedRows = Len(probe.in.sites)
             /\ TagsFileName(probe.in.profile)
                   \in Range(probe'.out.details.referencedTagFiles)]_vars

\* C13: whatever the directory held, a call of writeTrunkTsv or
\* writeTagsTsv leaves a file that is determined by the arguments alone,
\* and a call with the arguments of the call before leaves the text of the
\* file as it is.
C13_WritersIdempotent ==
    [][/\ probe' # None /\ probe'.fn = "writeTrunkTsv"
             => /\ trunkFiles'[probe'.in.profile]
                      = WrittenTrunk[<<probe'.in.profile, probe'.in.sites, probe'.in.system>>]
                /\ probe' = probe
                      => FileText(trunkFiles'[probe.in.profile])
                            = FileText(trunkFiles[probe.in.profile])
       /\ probe' # None /\ probe'.fn = "writeTagsTsv"
             => /\ tagsFiles'[probe'.in.profile] = WrittenTags[probe'.in.entries]
                /\ probe' = probe
                      => FileText(tagsFiles'[probe.in.profile])
                            = FileText(tagsFiles[probe.in.profile])]_vars

\* both writers have written over a directory that held other files
C13_Witness ==
    \E profile \in Profiles :
        /\ Called("writeTagsTsv") /\ probe.in.profile = profile /\ probe.in.entries # <<>>
        /\ trunkFiles[profile] = TextFile(TrunkLines(profile, <<JsonSite>>, JsonSystem))
        /\ tagsFiles[profile] = TextFile(TagsLines(probe.in.entries))
        /\ LegacyTrunkName(profile) \in DOMAIN dirFiles

\* The quoted-TSV form of the specification as an automaton: "open" expects
\* the quote that opens a field, "field" is inside a field, "quote" is after
\* a quote inside a field (the closing quote, or the first of a doubled
\* one), "bad" is a deviation.  A line is well formed when the automaton
\* ends in "quote": every field closed, one tab between fields, nothing
\* after the last closing quote.
FormStep(at, c) ==
    CASE at = "open"  -> IF c = "\"" THEN "field" ELSE "bad"
      [] at = "field" -> IF c = "\"" THEN "quote" ELSE "field"
      [] at = "quote" -> IF c = "\"" THEN "field" ELSE IF c = "\t" THEN "open" ELSE "bad"
      [] OTHER        -> "bad"

RECURSIVE FormScan(_, _, _, _)
FormScan(at, line, lo, hi) ==
    IF lo > hi THEN at
    ELSE IF lo = hi THEN FormStep(at, line[lo])
    ELSE LET left == FormScan(at, line, lo, (lo + hi) \div 2)
         IN  IF left = "bad" THEN left
             ELSE FormScan(left, line, (lo + hi) \div 2 + 1, hi)

WellFormedQuotedTsv(line) == FormScan("open", line, 1, Len(line)) = "quote"

\* the lines of a trunk file as the validator reads them, and for each
\* whether it is a row (not blank, not a comment), whether it parses, its
\* number of fields, and whether it is well formed
RowInfo(raw) ==
    IF raw = <<>> \/ startsWith(raw, <<"#">>)
    THEN [row |-> FALSE, ok |-> TRUE, n |-> 0, wf |-> TRUE]
    ELSE [row |-> TRUE, ok |-> parseQuotedTsvLine(raw).ok,
          n |-> Len(parseQuotedTsvLine(raw).fields), wf |-> WellFormedQuotedTsv(raw)]

ReadLines(file) == split(RemoveChar(FileText(file), "\r"), "\n")

LineInfo(file) == [k \in DOMAIN ReadLines(file) |-> RowInfo(Trim(ReadLines(file)[k]))]

\* every trunk file the directory can hold, with its lines read once
TrunkFiles == TrunkFilePool \cup {WrittenTrunk[a] : a \in DOMAIN WrittenTrunk}

LineTable == [file \in TrunkFiles |-> LineInfo(file)]

RowsBefore(info, i) == {k \in 1..(i - 1) : info[k].row}

\* line i is the first row whose field count differs from that of the
\* rows before it, all of which parse and agree
FirstMismatch(info, i) ==
    /\ info[i].row /\ info[i].ok
    /\ RowsBefore(info, i) # {}
    /\ \A k \in RowsBefore(info, i) : info[k].ok
    /\ \A j, k \in RowsBefore(info, i) : info[j].n = info[k].n
    /\ \E k \in RowsBefore(info, i) : info[k].n # info[i].n

ExpectedAt(info, i) == info[CHOOSE k \in RowsBefore(info, i) : TRUE].n

\* the step is a call of validateProfileFiles that read the trunk file
ValidatedFile(profile, file) ==
    /\ Validated(profile)
    /\ \/ trunkFiles[profile] = file
       \/ trunkFiles[profile] = None /\ trunkFiles'[profile] = file

\* C14: when line i of the trunk file is the first row whose field count
\* differs from the count of the rows parsed before it, validateProfileFiles
\* returns ok = false with the error 'Line i: expected n columns but found
\* k', counts in parsedRows only the rows before line i, and neither checks
\* for nor creates a tags file.
C14_ColumnMismatchHalts ==
    [][\A profile \in Profiles, file \in TrunkFiles :
          ValidatedFile(profile, file)
          => \A i \in DOMAIN LineTable[file] :
                FirstMismatch(LineTable[file], i)
                => /\ ~probe'.out.ok
                   /\ probe'.out.error
                         = LineError(i - 1, <<"e", "x", "p", "e", "c", "t", "e", "d", " ">>
                               \o IntToStr(ExpectedAt(LineTable[file], i))
                               \o <<" ", "c", "o", "l", "u", "m", "n", "s", " ", "b", "u", "t", " ", "f", "o", "u", "n", "d", " ">>
                               \o IntToStr(LineTable[file][i].n))
                   /\ probe'.out.details.parsedRows
                         = Cardinality(RowsBefore(LineTable[file], i))
                   /\ Range(probe'.out.examined) = RowsBefore(LineTable[file], i)
                   /\ probe'.out.details.createdTagFiles = <<>>
                   /\ tagsFiles' = tagsFiles
                   /\ dirFiles' = dirFiles]_vars

\* line i is the first row that deviates from the quoted-TSV form; the rows
\* before it are well formed and agree on a field count of two or more
FirstDeviation(info, i) ==
    /\ info[i].row /\ ~info[i].wf
    /\ \A k \in RowsBefore(info, i) : info[k].wf /\ info[k].ok /\ info[k].n >= 2
    /\ \A j, k \in RowsBefore(info, i) : info[j].n = info[k].n

ParseErrors ==
    { <<"f", "i", "e", "l", "d", " ", "m", "u", "s", "t", " ", "s", "t", "a", "r", "t", " ", "w", "i", "t", "h", " ", "d", "o", "u", "b", "l", "e", " ", "q", "u", "o", "t", "e">>,
      <<"f", "i", "e", "l", "d", "s", " ", "m", "u", "s", "t", " ", "b", "e", " ", "t", "a", "b", "-", "s", "e", "p", "a", "r", "a", "t", "e", "d", " ", "q", "u", "o", "t", "e", "d", " ", "v", "a", "l", "u", "e", "s">> }

\* C15: parseQuotedTsvLine accepts only well-formed lines, and when line i
\* of the trunk file is the first row that deviates, validateProfileFiles
\* returns ok = false with a parse error 'Line i: ...' and counts only the
\* rows before line i.
C15_DeviationIsParseError ==
    [][\A profile \in Profiles, file \in TrunkFiles :
          ValidatedFile(profile, file)
          => \A i \in DOMAIN LineTable[file] :
                /\ LineTable[file][i].row /\ LineTable[file][i].ok => LineTable[file][i].wf
                /\ FirstDeviation(LineTable[file], i)
                   => /\ ~probe'.out.ok
                      /\ \E e \in ParseErrors : probe'.out.error = LineError(i - 1, e)
                      /\ probe'.out.details.parsedRows
                            = Cardinality(RowsBefore(LineTable[file], i))
                      /\ Range(probe'.out.examined) = RowsBefore(LineTable[file], i)]_vars

DetailKeys == {"parsedRows", "expectedColumns", "referencedTagFiles", "createdTagFiles"}

\* C16: every result of validateProfileFiles carries the details record
\* with parsedRows, expectedColumns, referencedTagFiles and createdTagFiles,
\* and has ok = true exactly when its error is null.
C16_ResultCarriesDetails ==
    [][\A profile \in Profiles :
          Validated(profile)
          => /\ "details" \in DOMAIN probe'.out
             /\ DetailKeys \subseteq DOMAIN probe'.out.details
             /\ probe'.out.ok <=> probe'.out.error = Null]_vars

\* the tags files the rows of lines name, in order of first mention
RECURSIVE ReferencedIn(_, _)
ReferencedIn(refs, lines) ==
    IF lines = <<>> THEN refs
    ELSE ReferencedIn(
            IF RowInfo(Trim(Head(lines))).row
            THEN SetAddAll(refs, findTagFilesInFields(parseQuotedTsvLine(Trim(Head(lines))).fields))
            ELSE refs,
            Tail(lines))

RefTable == [file \in TrunkFiles |-> ReferencedIn(<<>>, ReadLines(file))]

\* rows only of the quoted-TSV form, one or more, agreeing on a field count
\* of two or more
StructurallyValid(info) ==
    /\ \E k \in DOMAIN info : info[k].row
    /\ \A k \in DOMAIN info : info[k].row => info[k].wf /\ info[k].ok /\ info[k].n >= 2
    /\ \A j, k \in DOMAIN info : info[j].row /\ info[k].row => info[j].n = info[k].n

\* the file of that name in PROFILES_DIR, given its tags files and other files
FileIn(tags, dir, name) ==
    IF \E q \in Profiles : name = TagsFileName(q)
    THEN tags[CHOOSE q \in Profiles : name = TagsFileName(q)]
    ELSE IF name \in DOMAIN dir THEN dir[name]
    ELSE None

\* the k-th tags file refs names is the first one missing from the directory
FirstMissing(refs, k) ==
    /\ ~isAbsolute(refs[k])
    /\ FileIn(tagsFiles, dirFiles, refs[k]) = None
    /\ \A j \in 1..(k - 1) : refs[j] \in ExistingNames

\* C17: when a structurally valid trunk file names a tags file that is not
\* in the profile directory, validateProfileFiles without createMissingTags
\* returns ok = false with an error that names the file and the repair flag
\* and creates no file, and with createMissingTags it returns ok = true,
\* lists the file in createdTagFiles and leaves it holding the header row.
C17_MissingTagsFile ==
    [][\A profile \in Profiles, file \in TrunkFiles :
          ValidatedFile(profile, file) /\ StructurallyValid(LineTable[file])
          => \A k \in DOMAIN RefTable[file] :
                FirstMissing(RefTable[file], k)
                => IF probe'.in.createMissingTags
                   THEN /\ probe'.out.ok
                        /\ RefTable[file][k] \in Range(probe'.out.details.createdTagFiles)
                        /\ FileIn(tagsFiles', dirFiles', RefTable[file][k]) = EmptyTagsFile
                   ELSE /\ ~probe'.out.ok
                        /\ includes(probe'.out.error.s, RefTable[file][k])
                        /\ includes(probe'.out.error.s, <<"c", "r", "e", "a", "t", "e", "M", "i", "s", "s", "i", "n", "g", "T", "a", "g", "s">>)
                        /\ tagsFiles' = tagsFiles
                        /\ dirFiles' = dirFiles]_vars

\* C18: a call of validateProfileFiles without createMissingTags leaves every
\* file of the profile directory as it was, and a call with it changes
\* nothing but the tags files it lists in createdTagFiles.
C18_ValidateChangesNothing ==
    [][\A profile \in Profiles :
          Validated(profile)
          => /\ UNCHANGED <<profileDocs, tgDocs, trunkFiles>>
             /\ \A n \in ExistingNames : FileIn(tagsFiles', dirFiles', n) = FileIn(tagsFiles, dirFiles, n)
             /\ \A q \in Profiles :
                   tagsFiles'[q] # tagsFiles[q]
                   => probe'.in.createMissingTags /\ TagsFileName(q) \in CreatedBy(probe'.out)
             /\ \A n \in DOMAIN dirFiles' \ DOMAIN dirFiles :
                   probe'.in.createMissingTags /\ n \in CreatedBy(probe'.out)]_vars

----------------------------------------------------------------------------
(* Properties of the requests and of the active-profile pointer            *)

\* C19: a request to an endpoint that takes a profile name, made with a name
\* that does not match ^[A-Za-z0-9_-]{1,64}$, is answered with an error
\* status, and creates, modifies or deletes no file, writes no reload marker
\* and issues no decoder action.
C19_UnsafeNameTouchesNothing ==
    [][lastReq' # None /\ lastReq'.op \in ProfileOps /\ ~isSafeProfileName(lastReq'.profile)
          => /\ lastReq'.status >= 400
             /\ lastReq'.writes = <<>>
             /\ UNCHANGED <<profileDocs, tgDocs, tagsFiles, trunkFiles, filterDocs,
                            reloadFile, activeFile, legacyActiveFile, dirFiles>>]_vars

\* a switch to an unsafe name was rejected while a pointer was in place
C19_Witness ==
    /\ lastReq # None /\ lastReq.op = "switch" /\ lastReq.profile = BadName
    /\ lastReq.status = 400
    /\ activeFile # None /\ legacyActiveFile # None

\* the step is a start of the process
Started == probe' # None /\ probe'.fn = "migrateLegacyActiveProfile"

Handled(op) == lastReq' # None /\ lastReq'.op = op

\* the checks of the switch handler on the state before the request
SwitchAllowed(profile) ==
    /\ isSafeProfileName(profile)
    /\ profileDocs[profile] # None
    /\ ValidateResultOf(profile, FALSE, TRUE).ok

\* C21: after start-up the active-profile pointer is written by the switch
\* operation only (no save, import, preview, validation or control request
\* changes it), a switch changes it only when the name is valid, the
\* profile document exists and validateProfileFiles returns ok, and a
\* switch failing one of the checks leaves the pointer and the reload
\* marker unchanged and issues no decoder restart
C21_PointerWrittenBySwitchOnly ==
    [][/\ activeFile' # activeFile /\ ~Started
             => /\ Handled("switch")
                /\ SwitchAllowed(lastReq'.profile)
                /\ activeFile' = Pointer(Str(lastReq'.profile), "api")
       /\ Handled("switch") /\ ~SwitchAllowed(lastReq'.profile)
             => /\ UNCHANGED <<activeFile, reloadFile>>
                /\ lastReq'.status >= 400
                /\ Restart \notin Range(lastReq'.writes)]_vars

\* a switch to an existing, valid profile went through
C21_Witness ==
    /\ lastReq # None /\ lastReq.op = "switch" /\ lastReq.status = 200
    /\ activeFile = Pointer(Str(<<"A", "Z">>), "api")
    /\ reloadFile # None /\ reloadFile.reason = "profile-switch"
    /\ legacyActiveFile = None

\* the start and restart commands of the decoder container
StartCommands == {Docker("start"), Docker("restart")}

\* the profile a request has to validate before it starts the decoder
GatedProfile(req) == IF req.op = "switch" THEN req.profile ELSE activeProfile

\* C22: a request issues a decoder start or restart command (control
\* action start-op25 / restart-op25, POST /api/op25/restart, profile switch)
\* only after validateProfileFiles returned ok, in that request, for the
\* active profile (for the profile switched to); with no active profile or
\* a failing validation no such command is issued; stop-op25 is issued
\* without any validation
C22_StartGatedByValidation ==
    [][lastReq' # None
          => /\ Range(lastReq'.writes) \cap StartCommands # {}
                   => /\ GatedProfile(lastReq') # NoProfile
                      /\ probe' = ValidateCall(GatedProfile(lastReq'), FALSE, probe'.out)
                      /\ probe'.out = ValidateResultOf(GatedProfile(lastReq'), FALSE, TRUE)
                      /\ probe'.out.ok
                      /\ lastReq'.writes[Len(lastReq'.writes)] \in StartCommands
             /\ lastReq'.op \in {"control-action", "op25-restart"}
                 /\ Range(lastReq'.writes) \cap StartCommands # {}
                   => /\ activeProfile # NoProfile
                      /\ ValidateResultOf(activeProfile, FALSE, TRUE).ok
             /\ lastReq'.op = "control-action" /\ lastReq'.outcome = "stop-op25"
                   => /\ lastReq'.writes = <<Docker("stop")>>
                      /\ probe' = None]_vars

\* the decoder was restarted through the control action with a valid
\* active profile
C22_Witness ==
    /\ lastReq # None /\ lastReq.op = "control-action" /\ lastReq.outcome = "restart-op25"
    /\ Docker("restart") \in Range(lastReq.writes)
    /\ probe # None /\ probe.out.ok

\* the commands dockerAction runs on the decoder container
DecoderCommands == {Docker("start"), Docker("stop"), Docker("restart")}

\* the request presented the configured token, from a private address
\* when CONTROL_PRIVATE_ONLY is on
Authorized(req) ==
    /\ "auth" \in DOMAIN req
    /\ env.ADMIN_TOKEN # <<>>
    /\ req.auth.token = env.ADMIN_TOKEN
    /\ env.CONTROL_PRIVATE_ONLY => isPrivateIp(req.auth.ip)

C28_PointerNamesExistingProfile ==
    activeProfile # NoProfile
        => /\ activeProfile \in DOMAIN profileDocs
           /\ profileDocs[activeProfile] # None

\* the step is the synchronous part of a switch that passed its checks
SwitchWrote == Len(awaiting') = Len(awaiting) + 1

\* C27: a switch writes the active-profile pointer and the reload marker
\* and only then issues the restart, all before its first await; nothing is
\* rolled back: a failed restart is answered with ok=false (status 200) and
\* the pointer stays as written; when switch requests interleave at the
\* await, the completion of a restart or of a log tail, in whatever order,
\* never changes the pointer or the marker, so both hold the profile of the
\* request that wrote last
C27_SwitchWritesBeforeRestart ==
    [][/\ SwitchWrote
             => LET req == awaiting'[Len(awaiting')]
                IN  /\ activeFile' = Pointer(Str(req.profile), "api")
                    /\ reloadFile' = [reason |-> "profile-switch", profile |-> req.profile]
                    /\ Len(req.writes) >= 3
                    /\ SubSeq(req.writes, Len(req.writes) - 2, Len(req.writes))
                          = <<W("active", req.profile), W("reload", req.profile), Restart>>
       /\ ~SwitchWrote => UNCHANGED <<activeFile, reloadFile>>
       /\ Handled("switch") /\ lastReq'.outcome = "restart-failed"
             => /\ lastReq'.status = 200
                /\ Restart \in Range(lastReq'.writes)
                /\ activeFile' = activeFile
                /\ activeFile'.changedBy = "api"]_vars

\* the second of two interleaved switches was answered first, with a failed
\* restart, while the first still waits: the pointer names the second's
\* profile
C27_Witness ==
    /\ lastReq # None /\ lastReq.op = "switch" /\ lastReq.outcome = "restart-failed"
    /\ Len(awaiting) = 1 /\ awaiting[1].profile # lastReq.profile
    /\ activeFile = Pointer(Str(lastReq.profile), "api")

----------------------------------------------------------------------------
(* Properties of the site normalizer, the tokenizer and the command        *)
(* rewriting                                                               *)

SitesDone == probe # None /\ probe.fn = "normalizeSitesCsv" /\ probe.done

\* digits, or digits '.' digits with one to five fractional digits the last
\* of which is not 0, and some digit that is not 0
CanonicalFrequency(f) ==
    LET parts == split(f, ".")
    IN  /\ Len(parts) \in {1, 2}
        /\ parts[1] # <<>> /\ AllDigits(parts[1])
        /\ Len(parts) = 2
              => /\ AllDigits(parts[2])
                 /\ Len(parts[2]) \in 1..5
                 /\ parts[2][Len(parts[2])] # "0"
        /\ \E i \in DOMAIN f : f[i] \in {"1", "2", "3", "4", "5", "6", "7", "8", "9"}

\* the typed token is a decimal number above zero that does not round to
\* zero at five fractional digits
UsableToken(tok) ==
    LET parts == split(tok, ".")
        frac  == IF Len(parts) = 2 THEN parts[2] ELSE <<>>
        NonZero(s) == \E i \in DOMAIN s : s[i] # "0"
    IN  /\ Len(parts) \in {1, 2}
        /\ AllDigits(parts[1]) /\ AllDigits(frac) /\ parts[1] \o frac # <<>>
        /\ \/ NonZero(parts[1])
           \/ NonZero(SubSeq(frac, 1, IF Len(frac) < 5 THEN Len(frac) ELSE 5))
           \/ Len(frac) > 5 /\ frac[6] \in {"5", "6", "7", "8", "9"}

UsableCount(toks) == Cardinality({k \in DOMAIN toks : UsableToken(toks[k])})

\* C24: every frequency string normalizeSitesCsv places in controlChannels
\* or alternateChannels denotes a number above zero, with at most five
\* fractional digits and no trailing zeros or trailing point; tokens that
\* are zero, negative or not numeric are left out, and so is a positive
\* token that renders as '0' at five fractional digits
C24_FrequenciesCanonical ==
    SitesDone
        => \A k \in DOMAIN probe.out.sites :
              /\ \A i \in DOMAIN probe.out.sites[k].controlChannels.s :
                    CanonicalFrequency(probe.out.sites[k].controlChannels.s[i])
              /\ \A i \in DOMAIN probe.out.sites[k].alternateChannels.s :
                    CanonicalFrequency(probe.out.sites[k].alternateChannels.s[i])
              /\ Len(probe.out.sites[k].controlChannels.s) = UsableCount(probe.in.control)
              /\ Len(probe.out.sites[k].alternateChannels.s) = UsableCount(probe.in.alt)

\* a site object with a name and a control channel
SiteComplete(site) ==
    /\ site.name.t = "string" /\ site.name.s # <<>>
    /\ site.controlChannels.t = "array" /\ site.controlChannels.s # <<>>

\* a site row of a trunk file with a site_name and a control_channel_list
RowComplete(line) ==
    /\ parseQuotedTsvLine(line).ok
    /\ Len(parseQuotedTsvLine(line).fields) = 9
    /\ parseQuotedTsvLine(line).fields[2] # <<>>
    /\ parseQuotedTsvLine(line).fields[3] # <<>>

\* C25: after any sequence of sites CSV saves and JSON-file imports, every
\* site of a stored profile document and every site row of the generated
\* trunk file has a name and at least one control-channel frequency (an
\* input site lacking either is not stored)
C25_StoredSitesComplete ==
    \A p \in Profiles :
        /\ profileDocs[p] # None
              => \A k \in DOMAIN profileDocs[p].system.sites :
                    SiteComplete(profileDocs[p].system.sites[k])
        /\ trunkFiles[p] # None
              => \A k \in 2..Len(trunkFiles[p].lines) : RowComplete(trunkFiles[p].lines[k])

\* the function of the call applied to a text
DelimResult(fn, text) ==
    CASE fn = "parseCsv"               -> parseCsv(text)
      [] fn = "normalizeTalkgroupsCsv" -> normalizeTalkgroupsCsv(text)
      [] fn = "normalizeSitesCsv"      -> normalizeSitesCsv(text)

\* C26: text whose header and rows are tab-separated is split into the same
\* headers and row mappings, and normalizes to the same entries or sites, as
\* the same table typed with commas
C26_TabSplitsLikeComma ==
    (probe.done /\ probe.in.sep = "\t")
        => probe.out = DelimResult(probe.fn, probe.in.comma)

----------------------------------------------------------------------------
(* Properties of the creation of tags files                                *)

\* the names of the tags files a step creates in the profile directory
CreatedTagFiles ==
    (DOMAIN dirFiles' \ DOMAIN dirFiles)
        \cup {TagsFileName(q) : q \in {r \in DOMAIN tagsFiles :
                                          tagsFiles[r] = None /\ tagsFiles'[r] # None}}

\* one path segment of 1 to 128 characters of A-Z a-z 0-9 _ . -
PlainName(n) ==
    /\ Len(n) >= 1 /\ Len(n) <= 128
    /\ \A i \in DOMAIN n : n[i] \in AllowedNameChars \cup {"."}

\* no file that was there is changed or removed
ExistingFilesKept ==
    /\ \A q \in DOMAIN tagsFiles : tagsFiles[q] # None => tagsFiles'[q] = tagsFiles[q]
    /\ \A n \in DOMAIN dirFiles : n \in DOMAIN dirFiles' /\ dirFiles'[n] = dirFiles[n]

\* C29 as stated: every file a validation or a tags/init request creates has
\* a plain name that ends in '.tags.tsv', and no existing file is changed
C29_AsStated ==
    [][ /\ \A n \in CreatedTagFiles :
              PlainName(n) /\ endsWith(n, <<".", "t", "a", "g", "s", ".", "t", "s", "v">>)
        /\ ExistingFilesKept ]_vars

\* C29: every file a validation or a tags/init request creates lies directly
\* in the profile directory under a name of 1 to 128 characters of
\* A-Z a-z 0-9 _ . - that ends in '.tags.tsv' in any letter case; a name
\* that is absolute or has a path separator creates nothing; and no file
\* that exists is overwritten or truncated
C29_TagFilesConfined ==
    [][ /\ \A n \in CreatedTagFiles :
              PlainName(n) /\ endsWith(toLowerCase(n), <<".", "t", "a", "g", "s", ".", "t", "s", "v">>)
        /\ ExistingFilesKept ]_vars

\* a validation created the tags file a trunk row names, next to a filled
\* tags file of the profile
C29_Witness ==
    /\ lastReq # None /\ lastReq.op = "validate-profile" /\ lastReq.status = 200
    /\ W("named-tags", <<"A", "Z">>) \in Range(lastReq.writes)
    /\ <<"B", ".", "T", "A", "G", "S", ".", "T", "S", "V">> \in DOMAIN dirFiles /\ dirFiles[<<"B", ".", "T", "A", "G", "S", ".", "T", "S", "V">>] = EmptyTagsFile
    /\ tagsFiles[<<"A", "Z">>] = FilledTagsFile

----------------------------------------------------------------------------
(* Properties of the command rewriting                                     *)

\* the token is '<profile>.tsv' or a path whose last segment it is
NamesLegacyTrunk(profile, token) ==
    \/ token = profile \o <<".", "t", "s", "v">>
    \/ endsWith(token, <<"/">> \o profile \o <<".", "t", "s", "v">>)

\* C30: rewriting a command a second time for the same profile changes
\* nothing, and the rewriting leaves every token alone that does not name
\* '<profile>.tsv' as a whole file name
C30_CommandRewriteIdempotent ==
    /\ probe.calls = 2 => probe.again = probe.out
    /\ probe.calls >= 1 =>
          \A k \in DOMAIN probe.in.command :
              ~NamesLegacyTrunk(probe.in.profile, probe.in.command[k])
                  => probe.out[k] = probe.in.command[k]
====
